---- MODULE Spec2Model ----
(***************************************************************************)
(* Clock-tree controller of the STM32MP1 RCC (drivers/st/clk/stm32mp1_clk.c) *)
(* as a state machine: the gate engine with its per-gate reference counts, *)
(* and the PLL1 operating-point (DVFS) engine.                             *)
(***************************************************************************)
EXTENDS Integers, Sequences, FiniteSets, TLC

\* ------------------------------------------------------------------------
\* Bounds of the model
\* ------------------------------------------------------------------------

\* Width in bits of the modelled `unsigned int' of gate_refcounts[]
\* (32 in the build; the overflow guard compares against 2^w - 1).
UINT_BITS == 2

\* Largest number of stm32mp_clk_enable calls, and of stm32mp_clk_disable
\* calls, issued on the clock under test in one behaviour.
MaxCalls == 3

UINT_MAX == 2^UINT_BITS - 1

\* ------------------------------------------------------------------------
\* Static tables
\* ------------------------------------------------------------------------

SEC == 1
N_S == 0

G(img, sec, off, b, idx, sc, s, f) ==
    [image |-> img, secure |-> sec, offset |-> off, bit |-> b, index |-> idx,
     set_clr |-> sc, sel |-> s, fixed |-> f]

\* Every entry of stm32mp1_clk_gate[], tagged with the image(s) that compile
\* it in ("ALL": no #if around it).
AllGates == <<
    G("ALL", SEC, "RCC_DDRITFCR", 0, "DDRC1", 0, "_UNKNOWN_SEL", "_ACLK"),
    G("ALL", SEC, "RCC_DDRITFCR", 1, "DDRC1LP", 0, "_UNKNOWN_SEL", "_ACLK"),
    G("ALL", SEC, "RCC_DDRITFCR", 2, "DDRC2", 0, "_UNKNOWN_SEL", "_ACLK"),
    G("ALL", SEC, "RCC_DDRITFCR", 3, "DDRC2LP", 0, "_UNKNOWN_SEL", "_ACLK"),
    G("ALL", SEC, "RCC_DDRITFCR", 4, "DDRPHYC", 0, "_UNKNOWN_SEL", "_PLL2_R"),
    G("ALL", SEC, "RCC_DDRITFCR", 5, "DDRPHYCLP", 0, "_UNKNOWN_SEL", "_PLL2_R"),
    G("ALL", SEC, "RCC_DDRITFCR", 6, "DDRCAPB", 0, "_UNKNOWN_SEL", "_PCLK4"),
    G("ALL", SEC, "RCC_DDRITFCR", 7, "DDRCAPBLP", 0, "_UNKNOWN_SEL", "_PCLK4"),
    G("ALL", SEC, "RCC_DDRITFCR", 8, "AXIDCG", 0, "_UNKNOWN_SEL", "_ACLK"),
    G("ALL", SEC, "RCC_DDRITFCR", 9, "DDRPHYCAPB", 0, "_UNKNOWN_SEL", "_PCLK4"),
    G("ALL", SEC, "RCC_DDRITFCR", 10, "DDRPHYCAPBLP", 0, "_UNKNOWN_SEL", "_PCLK4"),
    G("BL32", N_S, "RCC_MP_APB1ENSETR", 6, "TIM12_K", 1, "_UNKNOWN_SEL", "_PCLK1"),
    G("BL2", N_S, "RCC_MP_APB1ENSETR", 14, "USART2_K", 1, "_UART24_SEL", "_UNKNOWN_ID"),
    G("BL2", N_S, "RCC_MP_APB1ENSETR", 15, "USART3_K", 1, "_UART35_SEL", "_UNKNOWN_ID"),
    G("BL2", N_S, "RCC_MP_APB1ENSETR", 16, "UART4_K", 1, "_UART24_SEL", "_UNKNOWN_ID"),
    G("BL2", N_S, "RCC_MP_APB1ENSETR", 17, "UART5_K", 1, "_UART35_SEL", "_UNKNOWN_ID"),
    G("BL2", N_S, "RCC_MP_APB1ENSETR", 18, "UART7_K", 1, "_UART78_SEL", "_UNKNOWN_ID"),
    G("BL2", N_S, "RCC_MP_APB1ENSETR", 19, "UART8_K", 1, "_UART78_SEL", "_UNKNOWN_ID"),
    G("BL32", N_S, "RCC_MP_APB2ENSETR", 2, "TIM15_K", 1, "_UNKNOWN_SEL", "_PCLK2"),
    G("BL2", N_S, "RCC_MP_APB2ENSETR", 13, "USART6_K", 1, "_UART6_SEL", "_UNKNOWN_ID"),
    G("ALL", N_S, "RCC_MP_APB3ENSETR", 11, "SYSCFG", 1, "_UNKNOWN_SEL", "_UNKNOWN_ID"),
    G("BL32", N_S, "RCC_MP_APB4ENSETR", 0, "LTDC_PX", 1, "_UNKNOWN_SEL", "_UNKNOWN_ID"),
    G("ALL", N_S, "RCC_MP_APB4ENSETR", 8, "DDRPERFM", 1, "_UNKNOWN_SEL", "_UNKNOWN_ID"),
    G("ALL", N_S, "RCC_MP_APB4ENSETR", 15, "IWDG2", 1, "_UNKNOWN_SEL", "_UNKNOWN_ID"),
    G("ALL", N_S, "RCC_MP_APB4ENSETR", 16, "USBPHY_K", 1, "_USBPHY_SEL", "_UNKNOWN_ID"),
    G("ALL", SEC, "RCC_MP_APB5ENSETR", 0, "SPI6_K", 1, "_SPI6_SEL", "_UNKNOWN_ID"),
    G("ALL", SEC, "RCC_MP_APB5ENSETR", 2, "I2C4_K", 1, "_I2C46_SEL", "_UNKNOWN_ID"),
    G("ALL", SEC, "RCC_MP_APB5ENSETR", 3, "I2C6_K", 1, "_I2C46_SEL", "_UNKNOWN_ID"),
    G("ALL", SEC, "RCC_MP_APB5ENSETR", 4, "USART1_K", 1, "_UART1_SEL", "_UNKNOWN_ID"),
    G("ALL", SEC, "RCC_MP_APB5ENSETR", 8, "RTCAPB", 1, "_UNKNOWN_SEL", "_PCLK5"),
    G("ALL", SEC, "RCC_MP_APB5ENSETR", 11, "TZC1", 1, "_UNKNOWN_SEL", "_PCLK5"),
    G("ALL", SEC, "RCC_MP_APB5ENSETR", 12, "TZC2", 1, "_UNKNOWN_SEL", "_PCLK5"),
    G("ALL", SEC, "RCC_MP_APB5ENSETR", 13, "TZPC", 1, "_UNKNOWN_SEL", "_PCLK5"),
    G("ALL", SEC, "RCC_MP_APB5ENSETR", 15, "IWDG1", 1, "_UNKNOWN_SEL", "_PCLK5"),
    G("ALL", SEC, "RCC_MP_APB5ENSETR", 16, "BSEC", 1, "_UNKNOWN_SEL", "_PCLK5"),
    G("ALL", SEC, "RCC_MP_APB5ENSETR", 20, "STGEN_K", 1, "_STGEN_SEL", "_UNKNOWN_ID"),
    G("ALL", SEC, "RCC_BDCR", 20, "RTC", 0, "_RTC_SEL", "_UNKNOWN_ID"),
    G("BL32", N_S, "RCC_MP_AHB2ENSETR", 0, "DMA1", 1, "_UNKNOWN_SEL", "_UNKNOWN_ID"),
    G("BL32", N_S, "RCC_MP_AHB2ENSETR", 1, "DMA2", 1, "_UNKNOWN_SEL", "_UNKNOWN_ID"),
    G("BL32", N_S, "RCC_MP_AHB2ENSETR", 8, "USBO_K", 1, "_USBO_SEL", "_UNKNOWN_ID"),
    G("BL32", N_S, "RCC_MP_AHB2ENSETR", 16, "SDMMC3_K", 1, "_SDMMC3_SEL", "_UNKNOWN_ID"),
    G("ALL", N_S, "RCC_MP_AHB4ENSETR", 0, "GPIOA", 1, "_UNKNOWN_SEL", "_UNKNOWN_ID"),
    G("ALL", N_S, "RCC_MP_AHB4ENSETR", 1, "GPIOB", 1, "_UNKNOWN_SEL", "_UNKNOWN_ID"),
    G("ALL", N_S, "RCC_MP_AHB4ENSETR", 2, "GPIOC", 1, "_UNKNOWN_SEL", "_UNKNOWN_ID"),
    G("ALL", N_S, "RCC_MP_AHB4ENSETR", 3, "GPIOD", 1, "_UNKNOWN_SEL", "_UNKNOWN_ID"),
    G("ALL", N_S, "RCC_MP_AHB4ENSETR", 4, "GPIOE", 1, "_UNKNOWN_SEL", "_UNKNOWN_ID"),
    G("ALL", N_S, "RCC_MP_AHB4ENSETR", 5, "GPIOF", 1, "_UNKNOWN_SEL", "_UNKNOWN_ID"),
    G("ALL", N_S, "RCC_MP_AHB4ENSETR", 6, "GPIOG", 1, "_UNKNOWN_SEL", "_UNKNOWN_ID"),
    G("ALL", N_S, "RCC_MP_AHB4ENSETR", 7, "GPIOH", 1, "_UNKNOWN_SEL", "_UNKNOWN_ID"),
    G("ALL", N_S, "RCC_MP_AHB4ENSETR", 8, "GPIOI", 1, "_UNKNOWN_SEL", "_UNKNOWN_ID"),
    G("ALL", N_S, "RCC_MP_AHB4ENSETR", 9, "GPIOJ", 1, "_UNKNOWN_SEL", "_UNKNOWN_ID"),
    G("ALL", N_S, "RCC_MP_AHB4ENSETR", 10, "GPIOK", 1, "_UNKNOWN_SEL", "_UNKNOWN_ID"),
    G("ALL", SEC, "RCC_MP_AHB5ENSETR", 0, "GPIOZ", 1, "_UNKNOWN_SEL", "_PCLK5"),
    G("ALL", SEC, "RCC_MP_AHB5ENSETR", 4, "CRYP1", 1, "_UNKNOWN_SEL", "_PCLK5"),
    G("ALL", SEC, "RCC_MP_AHB5ENSETR", 5, "HASH1", 1, "_UNKNOWN_SEL", "_PCLK5"),
    G("ALL", SEC, "RCC_MP_AHB5ENSETR", 6, "RNG1_K", 1, "_RNG1_SEL", "_UNKNOWN_ID"),
    G("ALL", SEC, "RCC_MP_AHB5ENSETR", 8, "BKPSRAM", 1, "_UNKNOWN_SEL", "_PCLK5"),
    G("BL32", SEC, "RCC_MP_TZAHB6ENSETR", 0, "MDMA", 1, "_UNKNOWN_SEL", "_ACLK"),
    G("BL32", N_S, "RCC_MP_AHB6ENSETR", 5, "GPU", 1, "_UNKNOWN_SEL", "_UNKNOWN_ID"),
    G("BL32", N_S, "RCC_MP_AHB6ENSETR", 10, "ETHMAC", 1, "_UNKNOWN_SEL", "_ACLK"),
    G("BL2", N_S, "RCC_MP_AHB6ENSETR", 12, "FMC_K", 1, "_FMC_SEL", "_UNKNOWN_ID"),
    G("BL2", N_S, "RCC_MP_AHB6ENSETR", 14, "QSPI_K", 1, "_QSPI_SEL", "_UNKNOWN_ID"),
    G("ALL", N_S, "RCC_MP_AHB6ENSETR", 16, "SDMMC1_K", 1, "_SDMMC12_SEL", "_UNKNOWN_ID"),
    G("ALL", N_S, "RCC_MP_AHB6ENSETR", 17, "SDMMC2_K", 1, "_SDMMC12_SEL", "_UNKNOWN_ID"),
    G("BL32", N_S, "RCC_MP_AHB6ENSETR", 24, "USBH", 1, "_UNKNOWN_SEL", "_UNKNOWN_ID"),
    G("ALL", N_S, "RCC_DBGCFGR", 8, "CK_DBG", 0, "_UNKNOWN_SEL", "_UNKNOWN_ID")>>

Images == {"BL2", "BL32"}

\* stm32mp1_clk_gate[] as compiled for each image.
GateTable ==
    [img \in Images |-> SelectSeq(AllGates, LAMBDA g : g.image \in {"ALL", img})]

stm32mp1_clk_gate(img) == GateTable[img]

NB_GATES(img) == Len(stm32mp1_clk_gate(img))

gate_ref(img, idx) == stm32mp1_clk_gate(img)[idx]

gate_is_non_secure(gate) == gate.secure = N_S

\* Clock ids that parent_id_clock_id[] names: the clocks with no gate of
\* their own (oscillators, PLL outputs, bus and CPU clocks).
IdentityClockIds ==
    {"CK_HSE", "CK_HSI", "CK_CSI", "CK_LSE", "CK_LSI", "CK_HSE_DIV2",
     "PLL1_P", "PLL1_Q", "PLL1_R", "PLL2_P", "PLL2_Q", "PLL2_R",
     "PLL3_P", "PLL3_Q", "PLL3_R", "PLL4_P", "PLL4_Q", "PLL4_R",
     "CK_AXI", "CK_PER", "CK_MPU", "CK_MCU"}

\* The clock ids a caller of image img can pass: the gates' ids and the
\* ids above.
ClockIdTable ==
    [img \in Images |->
        {stm32mp1_clk_gate(img)[i].index : i \in 1..NB_GATES(img)}
            \cup IdentityClockIds]

ClockIds(img) == ClockIdTable[img]

\* The enable registers of the gates (for a set/clear pair, the set
\* register, which reads back the enable bits).
GateRegs == {AllGates[i].offset : i \in 1..Len(AllGates)}

\* The bits of register off that belong to a gate of the table.
GateBitTable ==
    [off \in GateRegs |->
        {AllGates[i].bit : i \in {j \in 1..Len(AllGates) : AllGates[j].offset = off}}]

GateBits(off) == GateBitTable[off]

\* ------------------------------------------------------------------------
\* Register accesses
\* ------------------------------------------------------------------------

BIT(b) == {b}

\* mmio_write_32() to the set register of a set/clear pair: the bits
\* written 1 are set, the others keep their value.
mmio_write_32_set(regs, off, bits) == [regs EXCEPT ![off] = @ \cup bits]

\* mmio_write_32() to the clear register (off + RCC_MP_ENCLRR_OFFSET).
mmio_write_32_clr(regs, off, bits) == [regs EXCEPT ![off] = @ \ bits]

\* Read-modify-write of a shared register, under reg_lock.
stm32mp_mmio_setbits_32_shregs(regs, off, bits) ==
    [regs EXCEPT ![off] = @ \cup bits]

stm32mp_mmio_clrbits_32_shregs(regs, off, bits) ==
    [regs EXCEPT ![off] = @ \ bits]

\* Fault: the enable write never reaches the register.
__clk_enable_never(regs, gate) == regs

__clk_enable(regs, gate) ==
    IF gate.set_clr # 0
    THEN mmio_write_32_set(regs, gate.offset, BIT(gate.bit))
    ELSE stm32mp_mmio_setbits_32_shregs(regs, gate.offset, BIT(gate.bit))

\* Fault: the disable write never reaches the register.
__clk_disable_never(regs, gate) == regs

__clk_disable(regs, gate) ==
    IF gate.set_clr # 0
    THEN mmio_write_32_clr(regs, gate.offset, BIT(gate.bit))
    ELSE stm32mp_mmio_clrbits_32_shregs(regs, gate.offset, BIT(gate.bit))

__clk_is_enabled(regs, gate) == gate.bit \in regs[gate.offset]

\* ------------------------------------------------------------------------
\* Gate engine
\* ------------------------------------------------------------------------

\* CASSERT pins CK_HSE..CK_HSE_DIV2 to 0..5 and PLL1_P..PLL3_R to nine
\* consecutive ids, so the two range tests select exactly these ids.
OscIdRange == {"CK_HSE", "CK_CSI", "CK_LSI", "CK_LSE", "CK_HSI", "CK_HSE_DIV2"}

PllIdRange == {"PLL1_P", "PLL1_Q", "PLL1_R", "PLL2_P", "PLL2_Q", "PLL2_R",
               "PLL3_P", "PLL3_Q", "PLL3_R"}

\* Fault: RTC left out of the switch.
clock_is_always_on_but_rtc(id) ==
    \/ id \in OscIdRange
    \/ id \in PllIdRange
    \/ id \in {"CK_AXI", "CK_MPU", "CK_MCU"}

clock_is_always_on(id) ==
    \/ id \in OscIdRange
    \/ id \in PllIdRange
    \/ id \in {"CK_AXI", "CK_MPU", "CK_MCU", "RTC"}

\* Index (from 1) of the first gate whose id is id; 0 stands for the
\* negative -EINVAL of the C function.
GatedIdScan(img, id) ==
    LET hits == {i \in 1..NB_GATES(img) : gate_ref(img, i).index = id}
    IN  IF hits = {} THEN 0
        ELSE CHOOSE i \in hits : \A j \in hits : i <= j

\* The scan, tabulated once for every image and clock id.
GatedIdTable ==
    [img \in Images |-> [id \in ClockIds(img) |-> GatedIdScan(img, id)]]

stm32mp1_clk_get_gated_id(img, id) == GatedIdTable[img][id]

\* Fault: the IMAGE_BL32 block compiled out.
bypass_refcount_always(img, gate) == FALSE

\* #if defined(IMAGE_BL32): non-secure gates are left out of the accounting.
bypass_refcount(img, gate) == img = "BL32" /\ gate_is_non_secure(gate)

\* Fault: no overflow test.
refcount_overflow_never(c) == FALSE

\* if (gate_refcounts[i] == UINT_MAX) panic();
refcount_overflow(c) == c = UINT_MAX

\* Fault: no underflow test.
refcount_underflow_never(c) == FALSE

\* if (gate_refcounts[i] == 0) panic();
refcount_underflow(c) == c = 0

\* What a call leaves behind: the registers, the refcounts and, when it
\* does not return, the function that panicked.
Outcome(regs, cnts, pan) == [regs |-> regs, cnts |-> cnts, panic |-> pan]

__stm32mp1_clk_enable(img, regs, cnts, id, with_refcnt) ==
    IF clock_is_always_on(id) THEN Outcome(regs, cnts, "none")
    ELSE
    LET i == stm32mp1_clk_get_gated_id(img, id) IN
    IF i = 0 THEN Outcome(regs, cnts, "clk_enable")
    ELSE
    LET gate == gate_ref(img, i) IN
    IF ~with_refcnt THEN Outcome(__clk_enable(regs, gate), cnts, "none")
    ELSE IF bypass_refcount(img, gate)
    THEN Outcome(__clk_enable(regs, gate), cnts, "none")
    ELSE
    LET regs1 == IF cnts[i] = 0 THEN __clk_enable(regs, gate) ELSE regs
        c1    == (cnts[i] + 1) % (UINT_MAX + 1)
    IN  Outcome(regs1, [cnts EXCEPT ![i] = c1],
                IF refcount_overflow(c1) THEN "clk_enable" ELSE "none")

__stm32mp1_clk_disable(img, regs, cnts, id, with_refcnt) ==
    IF clock_is_always_on(id) THEN Outcome(regs, cnts, "none")
    ELSE
    LET i == stm32mp1_clk_get_gated_id(img, id) IN
    IF i = 0 THEN Outcome(regs, cnts, "clk_disable")
    ELSE
    LET gate == gate_ref(img, i) IN
    IF ~with_refcnt THEN Outcome(__clk_disable(regs, gate), cnts, "none")
    ELSE IF bypass_refcount(img, gate)
    THEN Outcome(regs, cnts, "none")
    ELSE IF refcount_underflow(cnts[i])
    THEN Outcome(regs, cnts, "clk_disable")
    ELSE
    LET c1    == (cnts[i] + UINT_MAX) % (UINT_MAX + 1)
        regs1 == IF c1 = 0 THEN __clk_disable(regs, gate) ELSE regs
    IN  Outcome(regs1, [cnts EXCEPT ![i] = c1], "none")

\* The value stm32mp_clk_is_enabled() returns; "panic" when it does not.
stm32mp_clk_is_enabled(img, regs, id) ==
    IF clock_is_always_on(id) THEN "true"
    ELSE
    LET i == stm32mp1_clk_get_gated_id(img, id) IN
    IF i = 0 THEN "panic"
    ELSE IF __clk_is_enabled(regs, gate_ref(img, i)) THEN "true" ELSE "false"

\* ------------------------------------------------------------------------
\* PLL registers and PLL math
\* ------------------------------------------------------------------------

\* PLAT_MAX_OPP_NB entries in struct stm32mp1_pll_settings.
PLAT_MAX_OPP_NB == 2

\* Scale of the fractional part: FRACV counts 1/2^13 of the reference step.
FRACV_BITS == 13

PllIds == {"_PLL1", "_PLL2", "_PLL3", "_PLL4"}

\* stm32mp1_pll[]: reference window (MHz) and DIVN limit per PLL type.
stm32mp1_pll ==
    [PLL_800  |-> [refclk_min |-> 4, refclk_max |-> 16, divn_max |-> 99],
     PLL_1600 |-> [refclk_min |-> 8, refclk_max |-> 16, divn_max |-> 199]]

\* stm32mp1_clk_pll[]: type and candidate reference oscillators, indexed by
\* the reference source field.
stm32mp1_clk_pll ==
    [_PLL1 |-> [plltype |-> "PLL_1600",
                refclk |-> <<"_HSI", "_HSE", "_UNKNOWN_OSC_ID", "_UNKNOWN_OSC_ID">>],
     _PLL2 |-> [plltype |-> "PLL_1600",
                refclk |-> <<"_HSI", "_HSE", "_UNKNOWN_OSC_ID", "_UNKNOWN_OSC_ID">>],
     _PLL3 |-> [plltype |-> "PLL_800",
                refclk |-> <<"_HSI", "_HSE", "_CSI", "_UNKNOWN_OSC_ID">>],
     _PLL4 |-> [plltype |-> "PLL_800",
                refclk |-> <<"_HSI", "_HSE", "_CSI", "_I2S_CKIN">>]]

pll_ref(pll_id) == stm32mp1_clk_pll[pll_id]

OscIds == {"_HSI", "_HSE", "_CSI", "_LSI", "_LSE", "_I2S_CKIN"}

\* if (idx >= NB_OSC) return 0;
stm32mp1_clk_get_fixed(osc, idx) == IF idx \in OscIds THEN osc[idx] ELSE 0

stm32mp1_pll_get_fref(osc, selr, pll_id) ==
    stm32mp1_clk_get_fixed(osc, pll_ref(pll_id).refclk[selr[pll_id] + 1])

\* <<q, r>> with a * b = q * c + r and 0 <= r < c, by doubling, so that no
\* intermediate value leaves the range of the model checker's integers
\* (the C code computes the product in 64 bits).
RECURSIVE MulDivQR(_, _, _)
MulDivQR(a, b, c) ==
    IF b = 0 THEN <<0, 0>>
    ELSE LET h  == MulDivQR(a, b \div 2, c)
             r2 == 2 * h[2] + (b % 2) * (a % c)
         IN  <<2 * h[1] + (b % 2) * (a \div c) + (r2 \div c), r2 % c>>

\* floor(a * b / c)
MulDiv(a, b, c) == MulDivQR(a, b, c)[1]

\* (a * k mod 2^32) / d for a < 2^26, k <= 2^9: the product of two
\* `unsigned long' wraps at 32 bits before it is divided.
MulWrap32Div(a, k, d) ==
    LET lo   == (a % 65536) * k
        hi   == ((a \div 65536) * k + (lo \div 65536)) % 65536
        lo16 == lo % 65536
    IN  (hi \div d) * 65536 + (((hi % d) * 65536 + lo16) \div d)

\* stm32mp1_pll_get_fvco(): VCO (PLL3, PLL4) or VCO / 2 (PLL1, PLL2).
stm32mp1_pll_get_fvco(osc, selr, p, pll_id) ==
    LET refclk == stm32mp1_pll_get_fref(osc, selr, pll_id) IN
    IF p.fracle
    THEN MulDiv(refclk, (p.divn + 1) * 2^FRACV_BITS + p.fracv,
                (p.divm + 1) * 2^FRACV_BITS)
    ELSE MulWrap32Div(refclk, p.divn + 1, p.divm + 1)

\* The divider field of output div_id in PLLxCFGR2.
PllDivy(p, div_id) ==
    CASE div_id = "_DIV_P" -> p.divp
      [] div_id = "_DIV_Q" -> p.divq
      [] div_id = "_DIV_R" -> p.divr

stm32mp1_read_pll_freq(osc, selr, plls, pll_id, div_id) ==
    IF div_id \notin {"_DIV_P", "_DIV_Q", "_DIV_R"} THEN 0
    ELSE stm32mp1_pll_get_fvco(osc, selr, plls[pll_id], pll_id)
            \div (PllDivy(plls[pll_id], div_id) + 1)

\* stm32mp1_mpu_apbx_div[]: right shift selected by a 3-bit divider field.
stm32mp1_mpu_div == <<0, 1, 2, 3, 4, 4, 4, 4>>

\* get_clock_rate(_CK_MPU)
get_clock_rate_CK_MPU(osc, selr, plls, mpsel, mpdiv) ==
    CASE mpsel.src = "HSI" -> stm32mp1_clk_get_fixed(osc, "_HSI")
      [] mpsel.src = "HSE" -> stm32mp1_clk_get_fixed(osc, "_HSE")
      [] mpsel.src = "PLL" ->
            stm32mp1_read_pll_freq(osc, selr, plls, "_PLL1", "_DIV_P")
      [] mpsel.src = "PLL_MPUDIV" ->
            stm32mp1_read_pll_freq(osc, selr, plls, "_PLL1", "_DIV_P")
                \div 2^(stm32mp1_mpu_div[mpdiv.mpudiv + 1])

get_clock_rate_PLL1_P(osc, selr, plls) ==
    stm32mp1_read_pll_freq(osc, selr, plls, "_PLL1", "_DIV_P")

udiv_round_nearest(x, y) == (x + (y \div 2)) \div y

\* ------------------------------------------------------------------------
\* Operating points (DVFS): stm32mp1_set_opp_khz()
\* ------------------------------------------------------------------------

PLL1_SETTINGS_VALID_ID == "PLL1_SETTINGS_VALID_ID"

clk_pll1_settings_are_valid(settings) == settings.valid_id = PLL1_SETTINGS_VALID_ID

\* Fault: the divided reference is not tested against refclk_min.
stm32mp1_pll_compute_pllxcfgr1_no_min(osc, selr, pll_id, pllcfg) ==
    LET type   == pll_ref(pll_id).plltype
        refclk == stm32mp1_pll_get_fref(osc, selr, pll_id) \div (pllcfg.m + 1)
    IN  IF refclk > stm32mp1_pll[type].refclk_max * 1000000
        THEN [ret |-> "-EINVAL", divn |-> 0, divm |-> 0, ifrge |-> 0]
        ELSE [ret   |-> "0",
              divn  |-> pllcfg.n,
              divm  |-> pllcfg.m,
              ifrge |-> IF type = "PLL_800" /\ refclk >= 8000000 THEN 1 ELSE 0]

\* stm32mp1_pll_compute_pllxcfgr1(): the CFGR1 image of a table entry, or
\* -EINVAL when the divided reference leaves the window of the PLL type.
stm32mp1_pll_compute_pllxcfgr1(osc, selr, pll_id, pllcfg) ==
    LET type   == pll_ref(pll_id).plltype
        refclk == stm32mp1_pll_get_fref(osc, selr, pll_id) \div (pllcfg.m + 1)
    IN  IF \/ refclk < stm32mp1_pll[type].refclk_min * 1000000
           \/ refclk > stm32mp1_pll[type].refclk_max * 1000000
        THEN [ret |-> "-EINVAL", divn |-> 0, divm |-> 0, ifrge |-> 0]
        ELSE [ret   |-> "0",
              divn  |-> pllcfg.n,
              divm  |-> pllcfg.m,
              ifrge |-> IF type = "PLL_800" /\ refclk >= 8000000 THEN 1 ELSE 0]

\* Fault: the output-divider word (CFGR2) left out of the comparison.
stm32mp1_is_pll_config_on_the_fly_fracr_only(osc, selr, p, pll_id, pllcfg, fracv) ==
    LET v == stm32mp1_pll_compute_pllxcfgr1(osc, selr, pll_id, pllcfg) IN
    IF v.ret # "0" THEN [ret |-> v.ret, result |-> -1]
    ELSE IF <<p.divn, p.divm, p.ifrge>> # <<v.divn, v.divm, v.ifrge>>
    THEN [ret |-> "0", result |-> -1]
    ELSE IF p.fracv = fracv /\ p.fracle
    THEN [ret |-> "0", result |-> 1]
    ELSE [ret |-> "0", result |-> 0]

\* stm32mp1_is_pll_config_on_the_fly(): result -1 (stop needed), 0 (on the
\* fly) or 1 (same parameters).
stm32mp1_is_pll_config_on_the_fly(osc, selr, p, pll_id, pllcfg, fracv) ==
    LET v == stm32mp1_pll_compute_pllxcfgr1(osc, selr, pll_id, pllcfg) IN
    IF v.ret # "0" THEN [ret |-> v.ret, result |-> -1]
    ELSE IF <<p.divn, p.divm, p.ifrge>> # <<v.divn, v.divm, v.ifrge>>
    THEN [ret |-> "0", result |-> -1]
    ELSE IF /\ p.fracv = fracv /\ p.fracle
            /\ <<p.divp, p.divq, p.divr>> = <<pllcfg.p, pllcfg.q, pllcfg.r>>
    THEN [ret |-> "0", result |-> 1]
    ELSE [ret |-> "0", result |-> 0]

\* stm32mp1_get_mpu_div(): log2 of the MPUDIV that yields freq_khz from the
\* PLL1_P rate the registers describe, or -1.
stm32mp1_get_mpu_div(osc, selr, plls, freq_khz) ==
    LET freq_pll1_p == get_clock_rate_PLL1_P(osc, selr, plls) \div 1000 IN
    IF freq_pll1_p % freq_khz # 0 THEN -1
    ELSE LET div == freq_pll1_p \div freq_khz IN
         CASE div = 1  -> 0
           [] div = 2  -> 1
           [] div = 4  -> 2
           [] div = 8  -> 3
           [] div = 16 -> 4
           [] OTHER    -> -1

\* The first index whose frequency is freq_khz, PLAT_MAX_OPP_NB + 1 if none
\* (indices count from 1).
OppLookup(settings, freq_khz) ==
    IF \E i \in 1..PLAT_MAX_OPP_NB : settings.freq[i] = freq_khz
    THEN CHOOSE i \in 1..PLAT_MAX_OPP_NB :
            /\ settings.freq[i] = freq_khz
            /\ \A j \in 1..(i - 1) : settings.freq[j] # freq_khz
    ELSE PLAT_MAX_OPP_NB + 1

\* Fault: the validity of the table tested before the equality with the
\* current operating point.
set_opp_precheck_valid_first(freq_khz, cur, settings, mpsel) ==
    IF ~clk_pll1_settings_are_valid(settings) THEN "-EACCES"
    ELSE IF freq_khz = cur THEN "0"
    ELSE IF mpsel.src \notin {"PLL", "PLL_MPUDIV"} THEN "-EPERM"
    ELSE "config"

\* The early exits of stm32mp1_set_opp_khz(), in program order; "config"
\* when none is taken.
set_opp_precheck(freq_khz, cur, settings, mpsel) ==
    IF freq_khz = cur THEN "0"
    ELSE IF ~clk_pll1_settings_are_valid(settings) THEN "-EACCES"
    ELSE IF mpsel.src \notin {"PLL", "PLL_MPUDIV"} THEN "-EPERM"
    ELSE "config"

OppIdle(ret) ==
    [pc |-> "idle", freq_khz |-> 0, phase |-> "none", cfg_khz |-> 0, i |-> 0,
     div |-> -1, on_the_fly |-> -1, ret |-> ret]

\* What stm32mp1_set_opp_khz() does with the value `ret' returned by the
\* stm32mp1_pll1_config_from_opp_khz() call in progress.
config_returns(o, cur, ret) ==
    CASE o.phase = "apply" /\ ret = "0" ->
            [opp |-> OppIdle("0"), cur |-> o.freq_khz, panic |-> FALSE]
      [] o.phase = "apply" /\ ret # "0" ->
            [opp |-> [o EXCEPT !.pc = "config", !.phase = "restore",
                               !.cfg_khz = cur, !.i = 0, !.div = -1,
                               !.on_the_fly = -1],
             cur |-> cur, panic |-> FALSE]
      [] o.phase = "restore" /\ ret = "0" ->
            [opp |-> OppIdle("-EIO"), cur |-> cur, panic |-> FALSE]
      [] o.phase = "restore" /\ ret # "0" ->
            [opp |-> [o EXCEPT !.pc = "panic"], cur |-> cur, panic |-> TRUE]

\* ------------------------------------------------------------------------
\* State
\* ------------------------------------------------------------------------

VARIABLES
    image,           \* IMAGE_BL2 or IMAGE_BL32: which image was compiled
    tid,             \* the clock id the callers of this behaviour use
    rcc_en,          \* gate enable registers: offset -> set of bits that read 1
    gate_refcounts,  \* gate_refcounts[]: gate index -> unsigned int
    panicked,        \* "none", or the function whose panic() halted the system
    boot_en,         \* history: rcc_en as the earlier boot stage left it
    ens,             \* history: stm32mp_clk_enable(tid) calls that returned
    dis,             \* history: stm32mp_clk_disable(tid) calls that returned
    peak,            \* history: largest value gate_refcounts[] of tid has held
    forced,          \* history: a force_enable/force_disable hit tid's gate
    seen             \* history: the last stm32mp_clk_is_enabled(tid) and what
                     \* was called since

gateVars == <<image, tid, rcc_en, gate_refcounts, panicked, boot_en,
              ens, dis, peak, forced, seen>>

VARIABLES
    lock_available,  \* stm32mp_lock_available(): spin-locks can be used
    refcount_lock,   \* refcount_lock: 0 when free, else the CPU holding it
    cpu              \* per CPU: position in the call in progress, the call,
                     \* and the value loaded from gate_refcounts[]

smpVars == <<lock_available, refcount_lock, cpu>>

VARIABLES
    stm32mp1_osc,     \* stm32mp1_osc[]: oscillator -> frequency in Hz (0: absent)
    rckselr,          \* RCC_RCKxSELR of each PLL: the reference source field
    pll,              \* per PLL: the fields of PLLxCFGR1, PLLxCFGR2, PLLxFRACR, PLLxCR
    mpckselr,         \* RCC_MPCKSELR: MPU source field and source-ready bit
    mpckdivr,         \* RCC_MPCKDIVR: MPUDIV field and divider-ready bit
    pll1_settings,    \* the OPP table
    current_opp_khz,  \* the recorded current operating point
    opp,              \* the stm32mp1_set_opp_khz() call in progress
    opp_calls,        \* history: stm32mp1_set_opp_khz() calls started
    opp_hist          \* history: the state at entry of the last call, and
                      \* whether its first configuration attempt failed

dvfsVars == <<stm32mp1_osc, rckselr, pll, mpckselr, mpckdivr, pll1_settings,
              current_opp_khz, opp, opp_calls, opp_hist>>

\* The registers stm32mp1_set_opp_khz() can write.
OppRegs == <<pll, mpckselr, mpckdivr>>

VARIABLES
    rounded           \* the last stm32mp1_round_opp_khz() call: the frequency
                      \* passed in, the frequency written back, the return value

VARIABLES
    dt,               \* the clock tree the device tree describes
    boot,             \* what ran before stm32mp1_clk_init(): see BootStates
    oc,               \* oscillators: ON bits, ready bits, HSIDIV, HSIDIVRDY
    muxsel,           \* AXI and MCU source fields; source-ready bits of
                      \* the AXI, MCU and PLL reference muxes
    divr,             \* bus dividers: divider field and divider-ready bit
    clkinit           \* the stm32mp1_clk_init() call in progress; history:
                      \* the first poll that timed out, and whether a step
                      \* ran after it

VARIABLES
    rcc_regs,         \* the registers of the suspend snapshot other than the
                      \* gate registers: offset -> set of bits that read 1
    backup,           \* the .value fields of backup_mux0_cfg[],
                      \* backup_mux4_cfg[], backup_clock_sc_cfg[] and
                      \* backup_clock_cfg[]
    pm                \* "run", "suspended", "standby" or "resumed"; history:
                      \* the registers when stm32mp1_clock_suspend() was called
                      \* and whether the registers lost their content since

VARIABLES
    cas               \* stm32mp1_clk_compute_all_pll1_settings(): position,
                      \* the OPP frequencies of the device tree, loop index,
                      \* saved index, return value; history: the last call
                      \* of clk_compute_pll1_settings()

VARIABLES
    pllrate           \* the PLL whose rate is read and what
                      \* stm32mp1_read_pll_freq() returned

VARIABLES
    clkrate           \* the clock get_clock_rate() was called for and
                      \* what it returned

VARIABLES
    ckselr            \* the source field of each parent selector's register
                      \* (RCC_xxxCKSELR, RCC_BDCR), as the hardware holds it

VARIABLES
    parent            \* the clock id stm32mp1_clk_get_parent() was called with
                      \* and how the call ended

VARIABLES
    pllop             \* the PLL function in progress on the PLL under test, one
                      \* register access per step; history: the registers it has
                      \* written, the PLL at entry, whether the PLL was started
                      \* and its outputs not yet enabled

VARIABLES
    bdcr              \* RCC_BDCR: DIGBYP, LSEBYP, the LSEDRV field, LSEON

VARIABLES
    oscop             \* the oscillator function in progress, one register access per
                      \* step; history: the registers it has written, the values of the
                      \* LSEDRV field, the registers at entry

VARIABLES
    stopmode          \* pll3cr, pll4cr, mssckselr, mcudivr as stm32mp1_clock_stopmode_save()
                      \* left them; the position of stm32mp1_clock_stopmode_resume(), its
                      \* return value; history: its writes, the registers at its entry

VARIABLES
    poll              \* a readiness polling loop: the awaited bit, the timer, the deadline,
                      \* how the loop ended

VARIABLES
    pwr               \* stm32_pwr_domain_on(): position, arguments, return value, the two
                      \* backup registers; history: its accesses in order, the refcount of
                      \* RTCAPB at entry

auxVars == <<rounded, dt, boot, oc, muxsel, divr, clkinit, rcc_regs, backup, pm,
             cas, pllrate,
             clkrate,
             ckselr,
             parent,
             pllop,
             bdcr,
             oscop,
             stopmode,
             poll,
             pwr>>

vars == <<gateVars, smpVars, dvfsVars, auxVars>>


\* ------------------------------------------------------------------------
\* The gate engine as a state machine: one caller, one call at a time
\* ------------------------------------------------------------------------

\* Gate index of the clock under test (0: it has no gate) and its refcount.
TidGate == stm32mp1_clk_get_gated_id(image, tid)

TidCount == IF TidGate = 0 THEN 0 ELSE gate_refcounts[TidGate]

TidBit(regs) == TidGate # 0 /\ __clk_is_enabled(regs, gate_ref(image, TidGate))

\* seen: whether stm32mp_clk_is_enabled(tid) was called, what it returned, the
\* refcount at that time, and since then: enables minus disables that
\* returned, whether there was any, and whether no force call was made.
NotSeen ==
    [valid |-> FALSE, ret |-> "false", cnt0 |-> 0, bal |-> 0, moved |-> FALSE,
     pure |-> TRUE]

Max(a, b) == IF a >= b THEN a ELSE b

\* The enable registers as the earlier boot stage left them: the bit of the
\* gate under test and the bits of the other gates, each on or off.
BootImage(img, id, mine, others) ==
    LET i == stm32mp1_clk_get_gated_id(img, id) IN
    [off \in GateRegs |->
        {b \in GateBits(off) :
            IF i # 0 /\ gate_ref(img, i).offset = off /\ gate_ref(img, i).bit = b
            THEN mine ELSE others}]

\* No call made yet on the gate engine.
GateFresh ==
    /\ gate_refcounts = [i \in 1..NB_GATES(image) |-> 0]
    /\ panicked = "none"
    /\ boot_en = rcc_en
    /\ ens = 0
    /\ dis = 0
    /\ peak = 0
    /\ forced = FALSE
    /\ seen = NotSeen

GateInit ==
    /\ image \in Images
    /\ tid \in ClockIds(image)
    /\ \E mine \in BOOLEAN, others \in BOOLEAN :
          rcc_en = BootImage(image, tid, mine, others)
    /\ GateFresh

\* The gate engine left alone: the secure runtime image, every gate off.
GateQuiet ==
    /\ image = "BL32"
    /\ tid = "RTCAPB"
    /\ rcc_en = BootImage(image, tid, FALSE, FALSE)
    /\ GateFresh

\* The effect of a call on the registers, the refcounts and the panic state.
Apply(o, fn) ==
    /\ rcc_en' = o.regs
    /\ gate_refcounts' = o.cnts
    /\ panicked' = IF o.panic = "none" THEN "none" ELSE fn
    /\ peak' = IF TidGate = 0 THEN peak ELSE Max(peak, o.cnts[TidGate])

stm32mp_clk_enable ==
    /\ panicked = "none"
    /\ ens < MaxCalls
    /\ LET o == __stm32mp1_clk_enable(image, rcc_en, gate_refcounts, tid, TRUE) IN
       /\ Apply(o, "stm32mp_clk_enable")
       /\ ens' = IF o.panic = "none" THEN ens + 1 ELSE ens
       /\ seen' = IF seen.valid /\ o.panic = "none"
                  THEN [seen EXCEPT !.bal = @ + 1, !.moved = TRUE] ELSE seen
    /\ UNCHANGED <<image, tid, boot_en, dis, forced, smpVars, dvfsVars, auxVars>>

stm32mp_clk_disable ==
    /\ panicked = "none"
    /\ dis < MaxCalls
    /\ LET o == __stm32mp1_clk_disable(image, rcc_en, gate_refcounts, tid, TRUE) IN
       /\ Apply(o, "stm32mp_clk_disable")
       /\ dis' = IF o.panic = "none" THEN dis + 1 ELSE dis
       /\ seen' = IF seen.valid /\ o.panic = "none"
                  THEN [seen EXCEPT !.bal = @ - 1, !.moved = TRUE] ELSE seen
    /\ UNCHANGED <<image, tid, boot_en, ens, forced, smpVars, dvfsVars, auxVars>>

stm32mp1_clk_force_enable ==
    /\ panicked = "none"
    /\ LET o == __stm32mp1_clk_enable(image, rcc_en, gate_refcounts, tid, FALSE) IN
       Apply(o, "stm32mp1_clk_force_enable")
    /\ forced' = TRUE
    /\ seen' = [seen EXCEPT !.pure = FALSE]
    /\ UNCHANGED <<image, tid, boot_en, ens, dis, smpVars, dvfsVars, auxVars>>

stm32mp1_clk_force_disable ==
    /\ panicked = "none"
    /\ LET o == __stm32mp1_clk_disable(image, rcc_en, gate_refcounts, tid, FALSE) IN
       Apply(o, "stm32mp1_clk_force_disable")
    /\ forced' = TRUE
    /\ seen' = [seen EXCEPT !.pure = FALSE]
    /\ UNCHANGED <<image, tid, boot_en, ens, dis, smpVars, dvfsVars, auxVars>>

clk_is_enabled ==
    /\ panicked = "none"
    /\ LET r == stm32mp_clk_is_enabled(image, rcc_en, tid) IN
       /\ panicked' = IF r = "panic" THEN "stm32mp_clk_is_enabled" ELSE "none"
       /\ seen' = IF r = "panic" THEN seen
                  ELSE [valid |-> TRUE, ret |-> r, cnt0 |-> TidCount,
                        bal |-> 0, moved |-> FALSE, pure |-> TRUE]
    /\ UNCHANGED <<image, tid, rcc_en, gate_refcounts, boot_en, ens, dis,
                   peak, forced, smpVars, dvfsVars, auxVars>>

\* ------------------------------------------------------------------------
\* The parent of a clock
\* ------------------------------------------------------------------------

\* enum stm32mp1_parent_id in its order: the oscillators of enum
\* stm32mp_osc_id, then the other parent sources.
ParentIds ==
    <<"_HSI", "_HSE", "_CSI", "_LSI", "_LSE", "_I2S_CKIN",
      "_HSI_KER", "_HSE_KER", "_HSE_KER_DIV2", "_CSI_KER",
      "_PLL1_P", "_PLL1_Q", "_PLL1_R", "_PLL2_P", "_PLL2_Q", "_PLL2_R",
      "_PLL3_P", "_PLL3_Q", "_PLL3_R", "_PLL4_P", "_PLL4_Q", "_PLL4_R",
      "_ACLK", "_PCLK1", "_PCLK2", "_PCLK3", "_PCLK4", "_PCLK5",
      "_HCLK6", "_HCLK2", "_CK_PER", "_CK_MPU", "_CK_MCU", "_USB_PHY_48">>

_PARENT_NB == Len(ParentIds)

\* parent_id_clock_id[]: the clock id tied to each parent id.  _HCLK6 and
\* _HCLK2 have no initialiser: they hold 0, the value of CK_HSE.
parent_id_clock_id ==
    [_HSI |-> "CK_HSI", _HSE |-> "CK_HSE", _CSI |-> "CK_CSI",
     _LSI |-> "CK_LSI", _LSE |-> "CK_LSE", _I2S_CKIN |-> "_UNKNOWN_ID",
     _HSI_KER |-> "CK_HSI", _HSE_KER |-> "CK_HSE",
     _HSE_KER_DIV2 |-> "CK_HSE_DIV2", _CSI_KER |-> "CK_CSI",
     _PLL1_P |-> "PLL1_P", _PLL1_Q |-> "PLL1_Q", _PLL1_R |-> "PLL1_R",
     _PLL2_P |-> "PLL2_P", _PLL2_Q |-> "PLL2_Q", _PLL2_R |-> "PLL2_R",
     _PLL3_P |-> "PLL3_P", _PLL3_Q |-> "PLL3_Q", _PLL3_R |-> "PLL3_R",
     _PLL4_P |-> "PLL4_P", _PLL4_Q |-> "PLL4_Q", _PLL4_R |-> "PLL4_R",
     _ACLK |-> "CK_AXI", _PCLK1 |-> "CK_AXI", _PCLK2 |-> "CK_AXI",
     _PCLK3 |-> "CK_AXI", _PCLK4 |-> "CK_AXI", _PCLK5 |-> "CK_AXI",
     _HCLK6 |-> "CK_HSE", _HCLK2 |-> "CK_HSE",
     _CK_PER |-> "CK_PER", _CK_MPU |-> "CK_MPU", _CK_MCU |-> "CK_MCU",
     _USB_PHY_48 |-> "_UNKNOWN_ID"]

\* The first parent id whose entry of parent_id_clock_id[] is id, or
\* _UNKNOWN_ID.
clock_id2parent_id(id) ==
    LET hits == {n \in 1.._PARENT_NB : parent_id_clock_id[ParentIds[n]] = id}
    IN  IF hits = {} THEN "_UNKNOWN_ID"
        ELSE ParentIds[CHOOSE n \in hits : \A m \in hits : n <= m]

\* One entry of stm32mp1_clk_sel[]: the candidate parents, and the source
\* field's mask shifted down to bit 0.
S(parents, msk) == [parent |-> parents, msk |-> msk, nb_parent |-> Len(parents)]

uart234578_parents == <<"_PCLK1", "_PLL4_Q", "_HSI_KER", "_CSI_KER", "_HSE_KER">>

stm32mp1_clk_sel ==
    [_I2C12_SEL |-> S(<<"_PCLK1", "_PLL4_R", "_HSI_KER", "_CSI_KER">>, 7),
     _I2C35_SEL |-> S(<<"_PCLK1", "_PLL4_R", "_HSI_KER", "_CSI_KER">>, 7),
     _STGEN_SEL |-> S(<<"_HSI_KER", "_HSE_KER">>, 3),
     _I2C46_SEL |-> S(<<"_PCLK5", "_PLL3_Q", "_HSI_KER", "_CSI_KER">>, 7),
     _SPI6_SEL |-> S(<<"_PCLK5", "_PLL4_Q", "_HSI_KER", "_CSI_KER", "_HSE_KER",
                       "_PLL3_Q">>, 7),
     _UART1_SEL |-> S(<<"_PCLK5", "_PLL3_Q", "_HSI_KER", "_CSI_KER", "_PLL4_Q",
                        "_HSE_KER">>, 7),
     _RNG1_SEL |-> S(<<"_CSI", "_PLL4_R", "_LSE", "_LSI">>, 3),
     _RTC_SEL |-> S(<<"_UNKNOWN_ID", "_LSE", "_LSI", "_HSE">>, 3),
     _MPU_SEL |-> S(<<"_HSI", "_HSE", "_PLL1_P", "_PLL1_P">>, 3),
     _PER_SEL |-> S(<<"_HSI", "_HSE", "_CSI">>, 3),
     _UART6_SEL |-> S(<<"_PCLK2", "_PLL4_Q", "_HSI_KER", "_CSI_KER", "_HSE_KER">>, 7),
     _UART24_SEL |-> S(uart234578_parents, 7),
     _UART35_SEL |-> S(uart234578_parents, 7),
     _UART78_SEL |-> S(uart234578_parents, 7),
     _SDMMC12_SEL |-> S(<<"_HCLK6", "_PLL3_R", "_PLL4_P", "_HSI_KER">>, 7),
     _SDMMC3_SEL |-> S(<<"_HCLK2", "_PLL3_R", "_PLL4_P", "_HSI_KER">>, 7),
     _QSPI_SEL |-> S(<<"_ACLK", "_PLL3_R", "_PLL4_P", "_CK_PER">>, 3),
     _FMC_SEL |-> S(<<"_ACLK", "_PLL3_R", "_PLL4_P", "_CK_PER">>, 3),
     _AXIS_SEL |-> S(<<"_HSI", "_HSE", "_PLL2_P">>, 7),
     _MCUS_SEL |-> S(<<"_HSI", "_HSE", "_CSI", "_PLL3_P">>, 3),
     _USBPHY_SEL |-> S(<<"_HSE_KER", "_PLL4_R", "_HSE_KER_DIV2">>, 3),
     _USBO_SEL |-> S(<<"_PLL4_R", "_USB_PHY_48">>, 1)]

\* The selectors of enum stm32mp1_parent_sel below _PARENT_SEL_NB.
ParentSels == DOMAIN stm32mp1_clk_sel

clk_sel_ref(s) == stm32mp1_clk_sel[s]

stm32mp1_clk_get_sel(img, i) == gate_ref(img, i).sel

stm32mp1_clk_get_fixed_parent(img, i) == gate_ref(img, i).fixed

\* p < _PARENT_NB: p is a parent id, not _UNKNOWN_ID (0xff).
IsParentId(p) == \E n \in 1.._PARENT_NB : ParentIds[n] = p

\* What a call ends with: a return value (a parent id, or "-EINVAL"), or
\* panic().
Returns(v) == [panic |-> FALSE, ret |-> v]
Panics == [panic |-> TRUE, ret |-> "none"]

\* Fault: a field value past the candidates reads the last candidate.
stm32mp1_clk_get_parent_clamped(img, selr, id) ==
    LET i == clock_id2parent_id(id)
        g == GatedIdScan(img, id)
        p == stm32mp1_clk_get_fixed_parent(img, g)
        s == stm32mp1_clk_get_sel(img, g)
        sel == clk_sel_ref(s)
        p_sel == selr[s]
    IN  IF i # "_UNKNOWN_ID" THEN Returns(i)
        ELSE IF g = 0 THEN Panics
        ELSE IF IsParentId(p) THEN Returns(p)
        ELSE IF s = "_UNKNOWN_SEL" THEN Returns("-EINVAL")
        ELSE IF s \notin ParentSels THEN Panics
        ELSE IF p_sel < sel.nb_parent THEN Returns(sel.parent[p_sel + 1])
        ELSE Returns(sel.parent[sel.nb_parent])

stm32mp1_clk_get_parent(img, selr, id) ==
    LET i == clock_id2parent_id(id)
        g == GatedIdScan(img, id)
        p == stm32mp1_clk_get_fixed_parent(img, g)
        s == stm32mp1_clk_get_sel(img, g)
        sel == clk_sel_ref(s)
        p_sel == selr[s]
    IN  IF i # "_UNKNOWN_ID" THEN Returns(i)
        ELSE IF g = 0 THEN Panics
        ELSE IF IsParentId(p) THEN Returns(p)
        ELSE IF s = "_UNKNOWN_SEL" THEN Returns("-EINVAL")
        ELSE IF s \notin ParentSels THEN Panics
        ELSE IF p_sel < sel.nb_parent THEN Returns(sel.parent[p_sel + 1])
        ELSE Returns("-EINVAL")

\* The widest source field: the values a register read can be masked from.
FieldValues == 0..7

\* Every source field reads v cut to the field's width.
FieldsAt(v) == [s \in ParentSels |-> v % (stm32mp1_clk_sel[s].msk + 1)]

\* The clock ids of the gates of either image, and the ids
\* parent_id_clock_id[] names: what a caller can pass.  A gate compiled
\* for the other image only is an id with no gate in this one.
ParentCallIds == ClockIds("BL2") \cup ClockIds("BL32")

NoParent == [id |-> "none", called |-> FALSE, out |-> Returns("none")]

ParentQuiet == ckselr = FieldsAt(0) /\ parent = NoParent

ParentInit ==
    /\ \E v \in FieldValues : ckselr = FieldsAt(v)
    /\ parent = NoParent

\* One call of stm32mp1_clk_get_parent(); a panic halts the system.
clk_get_parent ==
    /\ ~parent.called
    /\ panicked = "none"
    /\ \E id \in ParentCallIds :
        LET out == stm32mp1_clk_get_parent(image, ckselr, id) IN
        /\ parent' = [id |-> id, called |-> TRUE, out |-> out]
        /\ panicked' = IF out.panic THEN "stm32mp1_clk_get_parent" ELSE panicked
    /\ UNCHANGED <<image, tid, rcc_en, gate_refcounts, boot_en, ens, dis, peak,
                   forced, seen, smpVars, dvfsVars, rounded, dt, boot, oc, muxsel,
                   divr, clkinit, rcc_regs, backup, pm, cas, pllrate, clkrate,
                   ckselr, pllop, bdcr, oscop, stopmode, poll, pwr>>

\* ------------------------------------------------------------------------
\* The refcounted path under two CPUs, one memory access per step
\* ------------------------------------------------------------------------

CPUs == {1, 2}

CpuIdle == [pc |-> "idle", op |-> "none", tmp |-> 0]

SmpIdle ==
    /\ lock_available = TRUE
    /\ refcount_lock = 0
    /\ cpu = [c \in CPUs |-> CpuIdle]

\* The clocks the two CPUs contend for: a secure gate of a read-modify-write
\* register, a secure gate of a set/clear pair, a non-secure gate, an
\* always-on clock and a clock without gate.
SmpClockIds == {"DDRC1", "RTCAPB", "GPIOA", "RTC", "PLL4_P"}

SmpInit ==
    /\ image \in Images
    /\ tid \in SmpClockIds
    /\ \E mine \in BOOLEAN : rcc_en = BootImage(image, tid, mine, FALSE)
    /\ GateFresh
    /\ lock_available \in BOOLEAN
    /\ refcount_lock = 0
    /\ cpu = [c \in CPUs |-> CpuIdle]

\* Fault: the spin-lock is never taken.
lock_taken_never(avail) == FALSE

\* stm32mp1_clk_lock()/stm32mp1_clk_unlock() touch the spin-lock only if
\* stm32mp_lock_available().
lock_taken(avail) == avail

InFlight(op) == Cardinality({c \in CPUs : cpu[c].op = op})

Returned(op) ==
    /\ ens' = IF op = "enable" THEN ens + 1 ELSE ens
    /\ dis' = IF op = "disable" THEN dis + 1 ELSE dis

\* Entry of stm32mp_clk_enable()/stm32mp_clk_disable() on CPU c, up to the
\* acquisition of refcount_lock.
smp_call(c) ==
    /\ panicked = "none"
    /\ cpu[c].pc = "idle"
    /\ \E op \in {"enable", "disable"} :
        /\ (IF op = "enable" THEN ens ELSE dis) + InFlight(op) < MaxCalls
        /\ IF clock_is_always_on(tid)
           THEN /\ Returned(op)
                /\ UNCHANGED <<rcc_en, panicked, cpu>>
           ELSE IF TidGate = 0
           THEN /\ panicked' = IF op = "enable" THEN "stm32mp_clk_enable"
                               ELSE "stm32mp_clk_disable"
                /\ UNCHANGED <<rcc_en, cpu, ens, dis>>
           ELSE IF bypass_refcount(image, gate_ref(image, TidGate))
           THEN /\ rcc_en' = IF op = "enable"
                             THEN __clk_enable(rcc_en, gate_ref(image, TidGate))
                             ELSE rcc_en
                /\ Returned(op)
                /\ UNCHANGED <<panicked, cpu>>
           ELSE /\ cpu' = [cpu EXCEPT ![c] = [pc |-> "lock", op |-> op, tmp |-> 0]]
                /\ UNCHANGED <<rcc_en, panicked, ens, dis>>
    /\ UNCHANGED <<image, tid, gate_refcounts, boot_en, peak, forced, seen,
                   lock_available, refcount_lock, dvfsVars, auxVars>>

stm32mp1_clk_lock(c) ==
    /\ panicked = "none"
    /\ cpu[c].pc = "lock"
    /\ IF lock_taken(lock_available)
       THEN refcount_lock = 0 /\ refcount_lock' = c
       ELSE UNCHANGED refcount_lock
    /\ cpu' = [cpu EXCEPT ![c].pc = "test"]
    /\ UNCHANGED <<gateVars, lock_available, dvfsVars, auxVars>>

\* if (gate_refcounts[i] == 0)
smp_test(c) ==
    /\ panicked = "none"
    /\ cpu[c].pc = "test"
    /\ IF cpu[c].op = "enable"
       THEN /\ cpu' = [cpu EXCEPT ![c].pc =
                          IF gate_refcounts[TidGate] = 0 THEN "hw" ELSE "load"]
            /\ UNCHANGED panicked
       ELSE IF refcount_underflow(gate_refcounts[TidGate])
       THEN /\ panicked' = "stm32mp_clk_disable"
            /\ UNCHANGED cpu
       ELSE /\ cpu' = [cpu EXCEPT ![c].pc = "load"]
            /\ UNCHANGED panicked
    /\ UNCHANGED <<image, tid, rcc_en, gate_refcounts, boot_en, ens, dis, peak,
                   forced, seen, lock_available, refcount_lock, dvfsVars, auxVars>>

\* __clk_enable(gate) / __clk_disable(gate)
smp_hw(c) ==
    /\ panicked = "none"
    /\ cpu[c].pc = "hw"
    /\ IF cpu[c].op = "enable"
       THEN /\ rcc_en' = __clk_enable(rcc_en, gate_ref(image, TidGate))
            /\ cpu' = [cpu EXCEPT ![c].pc = "load"]
       ELSE /\ rcc_en' = __clk_disable(rcc_en, gate_ref(image, TidGate))
            /\ cpu' = [cpu EXCEPT ![c].pc = "unlock"]
    /\ UNCHANGED <<image, tid, gate_refcounts, panicked, boot_en, ens, dis, peak,
                   forced, seen, lock_available, refcount_lock, dvfsVars, auxVars>>

\* gate_refcounts[i]++ / gate_refcounts[i]--: the load
smp_load(c) ==
    /\ panicked = "none"
    /\ cpu[c].pc = "load"
    /\ cpu' = [cpu EXCEPT ![c].pc = "store", ![c].tmp = gate_refcounts[TidGate]]
    /\ UNCHANGED <<gateVars, lock_available, refcount_lock, dvfsVars, auxVars>>

\* gate_refcounts[i]++ / gate_refcounts[i]--: the store, and the test of
\* the stored value that follows it
smp_store(c) ==
    /\ panicked = "none"
    /\ cpu[c].pc = "store"
    /\ LET c1 == IF cpu[c].op = "enable"
                 THEN (cpu[c].tmp + 1) % (UINT_MAX + 1)
                 ELSE (cpu[c].tmp + UINT_MAX) % (UINT_MAX + 1)
       IN  /\ gate_refcounts' = [gate_refcounts EXCEPT ![TidGate] = c1]
           /\ peak' = Max(peak, c1)
           /\ IF cpu[c].op = "enable"
              THEN IF refcount_overflow(c1)
                   THEN /\ panicked' = "stm32mp_clk_enable"
                        /\ UNCHANGED cpu
                   ELSE /\ cpu' = [cpu EXCEPT ![c].pc = "unlock"]
                        /\ UNCHANGED panicked
              ELSE /\ cpu' = [cpu EXCEPT ![c].pc = IF c1 = 0 THEN "hw" ELSE "unlock"]
                   /\ UNCHANGED panicked
    /\ UNCHANGED <<image, tid, rcc_en, boot_en, ens, dis, forced, seen,
                   lock_available, refcount_lock, dvfsVars, auxVars>>

stm32mp1_clk_unlock(c) ==
    /\ panicked = "none"
    /\ cpu[c].pc = "unlock"
    /\ refcount_lock' = IF lock_taken(lock_available) THEN 0 ELSE refcount_lock
    /\ cpu' = [cpu EXCEPT ![c] = CpuIdle]
    /\ Returned(cpu[c].op)
    /\ UNCHANGED <<image, tid, rcc_en, gate_refcounts, panicked, boot_en, peak,
                   forced, seen, lock_available, dvfsVars, auxVars>>

\* ------------------------------------------------------------------------
\* stm32mp1_set_opp_khz() as a state machine, one register poll per step
\* ------------------------------------------------------------------------

\* Calls of stm32mp1_set_opp_khz() in one behaviour.
MaxOppCalls == 2

PllCfg(m, n, p) == [m |-> m, n |-> n, p |-> p, q |-> 0, r |-> 0, o |-> {"_DIV_P"}]

\* One OPP table of PLAT_MAX_OPP_NB entries.
Settings(valid, f1, c1, x1, f2, c2, x2) ==
    [valid_id |-> valid, freq |-> <<f1, f2>>, cfg |-> <<c1, c2>>, frac |-> <<x1, x2>>]

NoSettings ==
    Settings("0", 0, PllCfg(0, 0, 0), 0, 0, PllCfg(0, 0, 0), 0)

\* States the driver is in after stm32mp1_clk_init()/stm32mp1_clk_probe()
\* on a board with a 24 MHz HSE: the OPP table, the table entry PLL1 was
\* programmed from, and the MPU source and divider.  The PLL1 settings are
\* those clk_compute_pll1_settings() finds for each frequency.
BootScenarios ==
    { [settings |-> Settings(PLL1_SETTINGS_VALID_ID,
                             650000, PllCfg(2, 80, 0), 2048,
                             800000, PllCfg(2, 99, 0), 0),
       boot |-> b, src |-> "PLL", mpudiv |-> 0] : b \in {1, 2} }
    \cup
    { [settings |-> Settings(PLL1_SETTINGS_VALID_ID,
                             400000, PllCfg(2, 49, 0), 0,
                             800000, PllCfg(2, 99, 0), 0),
       boot |-> 1, src |-> "PLL", mpudiv |-> 0],
      [settings |-> Settings(PLL1_SETTINGS_VALID_ID,
                             400000, PllCfg(2, 99, 0), 0,
                             800000, PllCfg(2, 99, 0), 0),
       boot |-> 1, src |-> "PLL_MPUDIV", mpudiv |-> 1],
      [settings |-> Settings(PLL1_SETTINGS_VALID_ID,
                             650100, PllCfg(2, 80, 0), 2150,
                             800000, PllCfg(2, 99, 0), 0),
       boot |-> 1, src |-> "PLL", mpudiv |-> 0],
      [settings |-> Settings(PLL1_SETTINGS_VALID_ID,
                             648000, PllCfg(2, 80, 0), 0,
                             650000, PllCfg(2, 80, 0), 2048),
       boot |-> 1, src |-> "PLL", mpudiv |-> 0],
      [settings |-> Settings(PLL1_SETTINGS_VALID_ID,
                             650000, PllCfg(2, 80, 0), 2048,
                             0, [PllCfg(0, 0, 0) EXCEPT !.o = {}], 0),
       boot |-> 1, src |-> "PLL", mpudiv |-> 0],
      [settings |-> Settings(PLL1_SETTINGS_VALID_ID,
                             324000, PllCfg(2, 80, 0), 0,
                             325000, PllCfg(2, 80, 1), 2048),
       boot |-> 1, src |-> "PLL_MPUDIV", mpudiv |-> 1],
      [settings |-> Settings(PLL1_SETTINGS_VALID_ID,
                             325000, PllCfg(2, 80, 1), 2048,
                             650000, PllCfg(2, 80, 0), 2048),
       boot |-> 1, src |-> "PLL", mpudiv |-> 0],
      [settings |-> [NoSettings EXCEPT !.cfg[1] = PllCfg(2, 80, 0), !.frac[1] = 2048],
       boot |-> 1, src |-> "PLL", mpudiv |-> 0],
      [settings |-> Settings(PLL1_SETTINGS_VALID_ID,
                             650000, PllCfg(2, 80, 0), 2048,
                             800000, PllCfg(2, 99, 0), 0),
       boot |-> 1, src |-> "HSI", mpudiv |-> 0],
      [settings |-> [NoSettings EXCEPT !.cfg[1] = PllCfg(2, 80, 0), !.frac[1] = 2048],
       boot |-> 1, src |-> "HSI", mpudiv |-> 0] }

\* Frequencies (kHz) callers ask for.
OppRequests ==
    {64000, 324000, 325000, 400000, 500000, 648000, 650000, 650100, 800000}

BoardOsc ==
    [o \in OscIds |->
        CASE o = "_HSI" -> 64000000
          [] o = "_HSE" -> 24000000
          [] o = "_CSI" -> 4000000
          [] o = "_LSI" -> 32000
          [] o = "_LSE" -> 32768
          [] OTHER      -> 0]

\* A PLL that is stopped, with its registers at their reset value.
PllReset ==
    [divn |-> 0, divm |-> 0, ifrge |-> 0, divp |-> 0, divq |-> 0, divr |-> 0,
     fracv |-> 0, fracle |-> FALSE, pllon |-> FALSE, pllrdy |-> FALSE,
     diven |-> {}, sscg_ctrl |-> FALSE]

\* PLL1 running from table entry (pllcfg, fracv).
PllRunning(pllcfg, fracv) ==
    [divn |-> pllcfg.n, divm |-> pllcfg.m, ifrge |-> 0,
     divp |-> pllcfg.p, divq |-> pllcfg.q, divr |-> pllcfg.r,
     fracv |-> fracv, fracle |-> TRUE, pllon |-> TRUE, pllrdy |-> TRUE,
     diven |-> pllcfg.o, sscg_ctrl |-> FALSE]

NoHist ==
    [freq_khz |-> 0, cur |-> 0, regs |-> <<>>, pre |-> "none", failed |-> FALSE]

DvfsBoot(s) ==
    /\ stm32mp1_osc = BoardOsc
    /\ rckselr = [p \in PllIds |-> 1]
    /\ pll = [p \in PllIds |->
                IF p = "_PLL1"
                THEN PllRunning(s.settings.cfg[s.boot], s.settings.frac[s.boot])
                ELSE PllReset]
    /\ mpckselr = [src |-> s.src, srcrdy |-> TRUE]
    /\ mpckdivr = [mpudiv |-> s.mpudiv, divrdy |-> TRUE]
    /\ pll1_settings = s.settings
    \* stm32mp1_clk_probe()
    /\ current_opp_khz =
          udiv_round_nearest(
              get_clock_rate_CK_MPU(stm32mp1_osc, rckselr, pll, mpckselr, mpckdivr),
              1000)
    /\ opp = OppIdle("none")
    /\ opp_calls = 0
    /\ opp_hist = NoHist

DvfsInit == \E s \in BootScenarios : DvfsBoot(s)

DvfsQuiet ==
    DvfsBoot(CHOOSE s \in BootScenarios :
                s.boot = 2 /\ s.settings.freq[1] = 650000)

\* stm32mp1_pll_stop(): outputs off, PLLON cleared, then PLLRDY polled;
\* `stopped' is whether it read 0 before PLLRDY_TIMEOUT.
stm32mp1_pll_stop(p, stopped) ==
    [p EXCEPT !.diven = {}, !.pllon = FALSE, !.pllrdy = ~stopped]

\* Fault: the configuration also switches the outputs off.
stm32mp1_pll_config_outputs_off(osc, selr, p, pll_id, pllcfg, fracv) ==
    LET v == stm32mp1_pll_compute_pllxcfgr1(osc, selr, pll_id, pllcfg) IN
    IF v.ret # "0" THEN [ret |-> v.ret, p |-> p]
    ELSE [ret |-> "0",
          p |-> [p EXCEPT !.divn = v.divn, !.divm = v.divm, !.ifrge = v.ifrge,
                          !.fracv = fracv, !.fracle = TRUE,
                          !.divp = pllcfg.p, !.divq = pllcfg.q, !.divr = pllcfg.r,
                          !.diven = {}]]

\* stm32mp1_pll_config(): CFGR1, FRACR (value, then FRACLE) and CFGR2.
stm32mp1_pll_config(osc, selr, p, pll_id, pllcfg, fracv) ==
    LET v == stm32mp1_pll_compute_pllxcfgr1(osc, selr, pll_id, pllcfg) IN
    IF v.ret # "0" THEN [ret |-> v.ret, p |-> p]
    ELSE [ret |-> "0",
          p |-> [p EXCEPT !.divn = v.divn, !.divm = v.divm, !.ifrge = v.ifrge,
                          !.fracv = fracv, !.fracle = TRUE,
                          !.divp = pllcfg.p, !.divq = pllcfg.q, !.divr = pllcfg.r]]

\* Fault: the output enables are cleared but PLLON is not set.
stm32mp1_pll_start_outputs_only(p) == [p EXCEPT !.diven = {}]

stm32mp1_pll_start(p) == [p EXCEPT !.diven = {}, !.pllon = TRUE]

\* stm32mp1_pll_output(): PLLRDY polled; `locked' is whether it read 1
\* before PLLRDY_TIMEOUT; the outputs are enabled only then.
stm32mp1_pll_output(p, output, locked) ==
    IF locked THEN [p EXCEPT !.pllrdy = TRUE, !.diven = @ \cup output]
    ELSE [p EXCEPT !.pllrdy = FALSE]

\* The value stm32mp1_pll1_config_from_opp_khz() returns to
\* stm32mp1_set_opp_khz(), and what the caller does with it.
Return(ret) ==
    LET r == config_returns(opp, current_opp_khz, ret) IN
    /\ opp' = r.opp
    /\ current_opp_khz' = r.cur
    /\ panicked' = IF r.panic THEN "stm32mp1_set_opp_khz" ELSE panicked
    /\ opp_hist' = [opp_hist EXCEPT
                       !.failed = @ \/ (opp.phase = "apply" /\ ret # "0")]

Goto(pc) ==
    /\ opp' = [opp EXCEPT !.pc = pc]
    /\ UNCHANGED <<current_opp_khz, panicked, opp_hist>>

DvfsFrame ==
    UNCHANGED <<image, tid, rcc_en, gate_refcounts, boot_en, ens, dis, peak,
                forced, seen, smpVars, stm32mp1_osc, rckselr, pll1_settings,
                auxVars>>

\* Entry of stm32mp1_set_opp_khz(): the three early exits.
set_opp_entry ==
    /\ panicked = "none"
    /\ opp.pc = "idle"
    /\ opp_calls < MaxOppCalls
    /\ \E freq_khz \in OppRequests :
        LET pre == set_opp_precheck(freq_khz, current_opp_khz, pll1_settings,
                                    mpckselr)
        IN  /\ opp' = IF pre = "config"
                      THEN [pc |-> "config", freq_khz |-> freq_khz,
                            phase |-> "apply", cfg_khz |-> freq_khz, i |-> 0,
                            div |-> -1, on_the_fly |-> -1, ret |-> "none"]
                      ELSE OppIdle(pre)
            /\ opp_hist' = [freq_khz |-> freq_khz, cur |-> current_opp_khz,
                            regs |-> OppRegs, pre |-> pre, failed |-> FALSE]
    /\ opp_calls' = opp_calls + 1
    /\ UNCHANGED <<pll, mpckselr, mpckdivr, current_opp_khz, panicked>>
    /\ DvfsFrame

\* stm32mp1_pll1_config_from_opp_khz() up to its first register write: the
\* table lookup, the MPUDIV shortcut test and the on-the-fly test.
pll1_config_from_opp_khz_select ==
    /\ opp.pc = "config"
    /\ LET i == OppLookup(pll1_settings, opp.cfg_khz) IN
       IF i = PLAT_MAX_OPP_NB + 1 THEN Return("-ENXIO")
       ELSE LET div == stm32mp1_get_mpu_div(stm32mp1_osc, rckselr, pll, opp.cfg_khz) IN
            IF div = 0
            THEN /\ opp' = [opp EXCEPT !.pc = "set_clksrc_pll1p", !.i = i]
                 /\ UNCHANGED <<current_opp_khz, panicked, opp_hist>>
            ELSE IF div > 0
            THEN /\ opp' = [opp EXCEPT !.pc = "set_clkdiv", !.i = i, !.div = div]
                 /\ UNCHANGED <<current_opp_khz, panicked, opp_hist>>
            ELSE LET f == stm32mp1_is_pll_config_on_the_fly(
                              stm32mp1_osc, rckselr, pll["_PLL1"], "_PLL1",
                              pll1_settings.cfg[i], pll1_settings.frac[i])
                 IN  IF f.ret # "0" THEN Return(f.ret)
                     ELSE IF f.result = 1 THEN Return("0")
                     ELSE /\ opp' = [opp EXCEPT
                                        !.pc = IF f.result = -1
                                               THEN "set_clksrc_hsi"
                                               ELSE "pll_config",
                                        !.i = i, !.on_the_fly = f.result]
                          /\ UNCHANGED <<current_opp_khz, panicked, opp_hist>>
    /\ UNCHANGED <<pll, mpckselr, mpckdivr, opp_calls>>
    /\ DvfsFrame

\* stm32mp1_set_clkdiv(div, RCC_MPCKDIVR) of the MPUDIV shortcut; `ready' is
\* whether DIVRDY read 1 before CLKDIV_TIMEOUT.
set_opp_set_clkdiv ==
    /\ opp.pc = "set_clkdiv"
    /\ \E ready \in BOOLEAN :
        /\ mpckdivr' = [mpudiv |-> opp.div, divrdy |-> ready]
        /\ IF ready THEN Goto("set_clksrc_pll1p_div") ELSE Return("-ETIMEDOUT")
    /\ UNCHANGED <<pll, mpckselr, opp_calls>>
    /\ DvfsFrame

\* The source stm32mp1_set_clksrc() is called with at each call site.
ClkSrcAt(pc) ==
    CASE pc = "set_clksrc_pll1p"     -> "PLL"
      [] pc = "set_clksrc_pll1p_div" -> "PLL_MPUDIV"
      [] pc = "set_clksrc_hsi"       -> "HSI"
      [] pc = "set_clksrc_back"      -> "PLL"

\* stm32mp1_set_clksrc() on RCC_MPCKSELR; `ready' is whether SRCRDY read 1
\* before CLKSRC_TIMEOUT.
set_opp_set_clksrc ==
    /\ opp.pc \in {"set_clksrc_pll1p", "set_clksrc_pll1p_div",
                   "set_clksrc_hsi", "set_clksrc_back"}
    /\ \E ready \in BOOLEAN :
        /\ mpckselr' = [src |-> ClkSrcAt(opp.pc), srcrdy |-> ready]
        /\ IF ~ready THEN Return("-ETIMEDOUT")
           ELSE IF opp.pc = "set_clksrc_hsi" THEN Goto("pll_stop")
           ELSE Return("0")
    /\ UNCHANGED <<pll, mpckdivr, opp_calls>>
    /\ DvfsFrame

set_opp_pll_stop ==
    /\ opp.pc = "pll_stop"
    /\ \E stopped \in BOOLEAN :
        /\ pll' = [pll EXCEPT !["_PLL1"] = stm32mp1_pll_stop(@, stopped)]
        /\ IF stopped THEN Goto("pll_config") ELSE Return("-ETIMEDOUT")
    /\ UNCHANGED <<mpckselr, mpckdivr, opp_calls>>
    /\ DvfsFrame

set_opp_pll_config ==
    /\ opp.pc = "pll_config"
    /\ LET c == stm32mp1_pll_config(stm32mp1_osc, rckselr, pll["_PLL1"], "_PLL1",
                                    pll1_settings.cfg[opp.i],
                                    pll1_settings.frac[opp.i])
       IN  /\ pll' = [pll EXCEPT !["_PLL1"] = c.p]
           /\ IF c.ret # "0" THEN Return(c.ret)
              ELSE IF opp.on_the_fly = -1 THEN Goto("pll_start")
              ELSE Return("0")
    /\ UNCHANGED <<mpckselr, mpckdivr, opp_calls>>
    /\ DvfsFrame

set_opp_pll_start ==
    /\ opp.pc = "pll_start"
    /\ pll' = [pll EXCEPT !["_PLL1"] = stm32mp1_pll_start(@)]
    /\ Goto("pll_output")
    /\ UNCHANGED <<mpckselr, mpckdivr, opp_calls>>
    /\ DvfsFrame

set_opp_pll_output ==
    /\ opp.pc = "pll_output"
    /\ \E locked \in BOOLEAN :
        /\ pll' = [pll EXCEPT !["_PLL1"] =
                      stm32mp1_pll_output(@, pll1_settings.cfg[opp.i].o, locked)]
        /\ IF locked THEN Goto("set_clksrc_back") ELSE Return("-ETIMEDOUT")
    /\ UNCHANGED <<mpckselr, mpckdivr, opp_calls>>
    /\ DvfsFrame

\* ------------------------------------------------------------------------
\* stm32mp1_round_opp_khz()
\* ------------------------------------------------------------------------

\* The loop of stm32mp1_round_opp_khz() from index i, round_opp being the
\* best frequency found so far.
RECURSIVE round_opp_loop(_, _, _, _)
round_opp_loop(settings, freq_khz, i, round_opp) ==
    IF i > PLAT_MAX_OPP_NB THEN round_opp
    ELSE round_opp_loop(settings, freq_khz, i + 1,
                        IF /\ settings.freq[i] <= freq_khz
                           /\ settings.freq[i] > round_opp
                        THEN settings.freq[i]
                        ELSE round_opp)

\* stm32mp1_round_opp_khz(): the value written back to *freq_khz (the
\* function always returns 0).
stm32mp1_round_opp_khz(settings, cur, freq_khz) ==
    IF ~clk_pll1_settings_are_valid(settings) THEN cur
    ELSE round_opp_loop(settings, freq_khz, 1, 0)

\* Frequencies (kHz) callers ask stm32mp1_round_opp_khz() for.
RoundRequests == OppRequests \cup {649999, 799999, 1000000}

NotRounded == [freq_khz |-> 0, out |-> 0, ret |-> "none"]


\* A call of stm32mp1_round_opp_khz() between two stm32mp1_set_opp_khz().
round_opp_khz ==
    /\ panicked = "none"
    /\ opp.pc = "idle"
    /\ \E freq_khz \in RoundRequests :
        rounded' = [freq_khz |-> freq_khz,
                    out |-> stm32mp1_round_opp_khz(pll1_settings,
                                                   current_opp_khz, freq_khz),
                    ret |-> "0"]
    /\ UNCHANGED <<gateVars, smpVars, dvfsVars, dt, boot, oc, muxsel, divr, clkinit,
                 rcc_regs, backup, pm, cas, pllrate, clkrate, ckselr, parent, pllop, bdcr, oscop, stopmode, poll, pwr>>

\* ------------------------------------------------------------------------
\* stm32mp1_clk_init(): bring-up, one register poll per step
\* ------------------------------------------------------------------------

MAX_HSI_HZ == 64000000

PllOrder == <<"_PLL1", "_PLL2", "_PLL3", "_PLL4">>

\* stm32mp1_check_pll_conf(): PLLxCR is compared as a whole word with
\* RCC_PLLNCR_PLLON, then the reference mux, the divided reference, CFGR1,
\* FRACR and CFGR2 with the words the device tree describes.
stm32mp1_check_pll_conf(osc, selr, p, pll_id, clksrc, pllcfg, fracv) ==
    LET type   == pll_ref(pll_id).plltype
        refclk == stm32mp1_pll_get_fref(osc, selr, pll_id) \div (pllcfg.m + 1)
        ifrge  == IF type = "PLL_800" /\ refclk >= 8000000 THEN 1 ELSE 0
    IN  /\ <<p.pllon, p.pllrdy, p.diven, p.sscg_ctrl>> = <<TRUE, FALSE, {}, FALSE>>
        /\ selr[pll_id] = clksrc
        /\ refclk >= stm32mp1_pll[type].refclk_min * 1000000
        /\ refclk <= stm32mp1_pll[type].refclk_max * 1000000
        /\ <<p.divn, p.divm, p.ifrge>> = <<pllcfg.n, pllcfg.m, ifrge>>
        /\ p.fracv = fracv /\ p.fracle
        /\ <<p.divp, p.divq, p.divr>> = <<pllcfg.p, pllcfg.q, pllcfg.r>>

\* stm32mp1_hsidiv(): the HSIDIV field for hsifreq, 4 when hsifreq is not
\* 64 MHz divided by 1, 2, 4 or 8.
RECURSIVE stm32mp1_hsidiv(_, _, _)
stm32mp1_hsidiv(hsifreq, hsidiv, hsidivfreq) ==
    IF hsidiv = 4 \/ hsidivfreq = hsifreq THEN hsidiv
    ELSE stm32mp1_hsidiv(hsifreq, hsidiv + 1, hsidivfreq \div 2)

\* Fault: the MPU is switched to its source before the PLLs are configured.
InitSteps_mpu_src_early ==
    <<"lsi", "lse", "hse", "csi", "mpu_hsi", "axi_hsi", "mcu_hsi", "preserve",
      "pll_stop", "hsidiv", "mpudiv", "axidiv", "apb4div", "apb5div", "mcudiv",
      "apb1div", "apb2div", "apb3div", "rtcdiv", "pll12_src", "pll3_src",
      "pll4_src", "mpu_src", "pll_config", "pll_output", "lse_wait", "axi_src",
      "mcu_src", "rtcsrc", "pkcs", "pkcs_ckper", "pkcs_usb", "hsi_off",
      "return">>

\* The steps of stm32mp1_clk_init() in program order.
InitSteps ==
    <<"lsi", "lse", "hse", "csi", "mpu_hsi", "axi_hsi", "mcu_hsi", "preserve",
      "pll_stop", "hsidiv", "mpudiv", "axidiv", "apb4div", "apb5div", "mcudiv",
      "apb1div", "apb2div", "apb3div", "rtcdiv", "pll12_src", "pll3_src",
      "pll4_src", "pll_config", "pll_output", "lse_wait", "mpu_src", "axi_src",
      "mcu_src", "rtcsrc", "pkcs", "pkcs_ckper", "pkcs_usb", "hsi_off",
      "return">>

StepAfter(pc) ==
    InitSteps[(CHOOSE k \in 1..Len(InitSteps) : InitSteps[k] = pc) + 1]

\* The offsets of the selector registers the st,pkcs words of the device
\* trees below address (RCC_QSPICKSELR 0x900, RCC_USBCKSELR 0x91C,
\* RCC_CPERCKSELR 0xD0).
RccOffset ==
    [RCC_QSPICKSELR |-> 2304, RCC_USBCKSELR |-> 2332, RCC_CPERCKSELR |-> 208]

\* .offset and .src of the selectors in those registers.
SelReg ==
    [_QSPI_SEL   |-> [offset |-> RccOffset.RCC_QSPICKSELR, src |-> 0],
     _PER_SEL    |-> [offset |-> RccOffset.RCC_CPERCKSELR, src |-> 0],
     _USBPHY_SEL |-> [offset |-> RccOffset.RCC_USBCKSELR, src |-> 0],
     _USBO_SEL   |-> [offset |-> RccOffset.RCC_USBCKSELR, src |-> 4]]

\* A 32-bit st,pkcs word: bit 31 and the 31 bits below it.
PkcsWord(hi, offset, value) == [bit31 |-> hi, low |-> offset * 16 + value]

CLK_CKPER_HSE      == PkcsWord(FALSE, RccOffset.RCC_CPERCKSELR, 2)
CLK_CKPER_DISABLED == PkcsWord(FALSE, RccOffset.RCC_CPERCKSELR, 3)
CLK_QSPI_PER       == PkcsWord(FALSE, RccOffset.RCC_QSPICKSELR, 3)
CLK_USBPHY_HSE     == PkcsWord(FALSE, RccOffset.RCC_USBCKSELR, 0)
CLK_USBPHY_PLL4    == PkcsWord(FALSE, RccOffset.RCC_USBCKSELR, 1)
CLK_USBO_PLL4      == PkcsWord(TRUE, RccOffset.RCC_USBCKSELR, 0)
CLK_USBO_USBPHY    == PkcsWord(TRUE, RccOffset.RCC_USBCKSELR, 1)

\* stm32mp1_pkcs_config(): the nibble of the register at bits 15..4 of the
\* word (the upper nibble when bit 31 is set) is replaced by bits 3..0; sel
\* is the source field of every selector, which reads the bits of the
\* nibble under its mask.
stm32mp1_pkcs_config(sel, pkcs) ==
    LET address == (pkcs.low \div 16) % 4096
        value   == pkcs.low % 16
        shift   == IF pkcs.bit31 THEN 4 ELSE 0
    IN  [s \in DOMAIN sel |->
            IF /\ s \in DOMAIN SelReg
               /\ SelReg[s].offset = address
               /\ SelReg[s].src = shift
            THEN value % (stm32mp1_clk_sel[s].msk + 1)
            ELSE sel[s]]

\* RCC_USBCKSELR under the masks of _USBPHY_SEL and _USBO_SEL.
UsbReg(sel) == <<sel["_USBPHY_SEL"], sel["_USBO_SEL"]>>

PllCfgQR(m, n, p, q, r) ==
    [m |-> m, n |-> n, p |-> p, q |-> q, r |-> r, o |-> {"_DIV_P", "_DIV_Q", "_DIV_R"}]

\* The clock tree a device tree describes: oscillators (Hz, 0 when the node
\* is absent), st,clksrc, st,clkdiv and the st,pll@N nodes.
Topology(hsi, hse, lse, pll12, m1, mpu, valid1) ==
    [osc    |-> [o \in OscIds |->
                    CASE o = "_HSI" -> hsi
                      [] o = "_HSE" -> hse
                      [] o = "_CSI" -> 4000000
                      [] o = "_LSI" -> 32000
                      [] o = "_LSE" -> lse
                      [] OTHER      -> 0],
     clksrc |-> [PLL12 |-> pll12, PLL3 |-> pll12, PLL4 |-> pll12,
                 MPU |-> mpu, AXI |-> "PLL2P", MCU |-> "PLL3P"],
     clkdiv |-> [MPU |-> 1, AXI |-> 0, APB4 |-> 1, APB5 |-> 2, MCU |-> 0,
                 APB1 |-> 1, APB2 |-> 1, APB3 |-> 1, RTC |-> 23],
     pllcfg_valid |-> [p \in PllIds |-> p # "_PLL1" \/ valid1],
     pllcfg |-> [p \in PllIds |->
                    CASE p = "_PLL1" -> PllCfg(m1, 80, 0)
                      [] p = "_PLL2" -> PllCfgQR(m1, 65, 1, 0, 0)
                      [] p = "_PLL3" -> PllCfgQR(m1, 33, 1, 16, 36)
                      [] p = "_PLL4" -> PllCfgQR(m1, 98, 5, 7, 7)],
     pllfracv |-> [p \in PllIds |->
                    CASE p = "_PLL1" -> 2048
                      [] p = "_PLL2" -> 5120
                      [] p = "_PLL3" -> 6660
                      [] p = "_PLL4" -> 0],
     pkcs_found |-> TRUE,
     pkcs_cell |-> <<CLK_CKPER_HSE, CLK_USBPHY_PLL4, CLK_USBO_PLL4>>]

\* The st,pkcs lists of the device trees: CLK_CKPER_DISABLED first and
\* twice, in the middle, absent; the USB muxes as the boot ROM leaves them
\* for a boot over USB from PLL4, or not.
PkcsLists ==
    { <<CLK_CKPER_DISABLED, CLK_QSPI_PER, CLK_USBPHY_HSE, CLK_CKPER_DISABLED,
        CLK_USBO_PLL4>>,
      <<CLK_QSPI_PER, CLK_CKPER_DISABLED, CLK_USBPHY_PLL4>>,
      <<CLK_CKPER_HSE, CLK_USBPHY_PLL4, CLK_USBO_USBPHY>> }

Topologies ==
    { Topology(64000000, 24000000, 32768, 1, 2, "PLL", TRUE),
      Topology(0,        24000000, 0,     1, 2, "PLL", TRUE),
      Topology(32000000, 24000000, 32768, 1, 2, "PLL_MPUDIV", TRUE),
      Topology(64000000, 24000000, 32768, 0, 7, "PLL", TRUE),
      Topology(64000000, 24000000, 32768, 1, 0, "PLL", TRUE),
      Topology(48000000, 24000000, 32768, 1, 2, "PLL", TRUE),
      Topology(64000000, 24000000, 0,     1, 2, "HSI", FALSE) }
    \cup { [Topology(64000000, 24000000, 32768, 1, 2, "PLL", TRUE)
              EXCEPT !.pkcs_cell = l] : l \in PkcsLists }
    \cup { [Topology(64000000, 24000000, 32768, 1, 2, "PLL", TRUE)
              EXCEPT !.pkcs_found = FALSE, !.pkcs_cell = <<>>] }

\* PLL p as the device tree of topology t describes it, started, with
\* lock and outputs as given.
PllFromDt(t, p, rdy, diven) ==
    [divn |-> t.pllcfg[p].n, divm |-> t.pllcfg[p].m,
     ifrge |-> IF pll_ref(p).plltype = "PLL_800"
                  /\ t.osc[pll_ref(p).refclk[t.clksrc.PLL12 + 1]]
                        \div (t.pllcfg[p].m + 1) >= 8000000
               THEN 1 ELSE 0,
     divp |-> t.pllcfg[p].p, divq |-> t.pllcfg[p].q, divr |-> t.pllcfg[p].r,
     fracv |-> t.pllfracv[p], fracle |-> TRUE, pllon |-> TRUE, pllrdy |-> rdy,
     diven |-> diven, sscg_ctrl |-> FALSE]

\* What the boot ROM or the previous run left: "cold" (PLLs in reset
\* state), "running" (MPU reset with the PLLs locked and driving their
\* outputs, MPU, AXI and MCU on the sources of the device tree), "starting"
\* (MPU reset with PLL3 and PLL4 started, not yet locked), "usb" (boot over
\* USB, the USB PHY fed by PLL4_R as the boot ROM programmed PLL4),
\* "usb_hse" (boot over USB, the USB PHY fed by HSE).
BootStates == {"cold", "running", "starting", "usb", "usb_hse"}

\* RCC_MP_RSTSCLRR_MPUP0RSTF reads 1.
MpuReset(b) == b \in {"running", "starting"}

\* get_boot_device() == BOOT_DEVICE_USB
UsbBoot(b) == b \in {"usb", "usb_hse"}

\* PLL4 as the boot ROM runs it for the USB PHY: its own dividers, only
\* the R output enabled.
BootRomPll4 ==
    [divn |-> 49, divm |-> 1, ifrge |-> 1, divp |-> 2, divq |-> 1, divr |-> 3,
     fracv |-> 0, fracle |-> FALSE, pllon |-> TRUE, pllrdy |-> TRUE,
     diven |-> {"_DIV_R"}, sscg_ctrl |-> FALSE]

\* RCC_USBCKSELR as the boot ROM leaves it: the USB PHY on PLL4_R when it
\* booted over USB from PLL4, on HSE otherwise; USB OTG on PLL4_R.
BootRomUsbSel(b) == <<IF b = "usb" THEN 1 ELSE 0, 0>>

ClkInitIdle ==
    [pc |-> "idle", i |-> 0, ret |-> "none", pll3_preserve |-> FALSE,
     pll4_preserve |-> FALSE, pll4_bootrom |-> FALSE, stgen_p |-> "none",
     usbphy_p |-> "none", timeout |-> "none", later |-> FALSE, wrote |-> {},
     ckper_disabled |-> FALSE, usbreg_bootrom |-> <<0, 0>>, pkcs_log |-> <<>>]

NoDt == Topology(0, 0, 0, 0, 0, "HSI", FALSE)

NoMuxsel ==
    [AXI |-> [src |-> "HSI", srcrdy |-> TRUE],
     MCU |-> [src |-> "HSI", srcrdy |-> TRUE],
     PLL12 |-> [srcrdy |-> TRUE], PLL3 |-> [srcrdy |-> TRUE],
     PLL4 |-> [srcrdy |-> TRUE]]

NoDivr ==
    [d \in {"AXI", "APB4", "APB5", "MCU", "APB1", "APB2", "APB3", "RTC"} |->
        [div |-> 0, divrdy |-> TRUE]]

HsiOnly == [on |-> {"_HSI"}, rdy |-> {"_HSI"}, hsidiv |-> 0, hsidivrdy |-> TRUE]

\* The variables of bring-up in the specifications that do not run it.
InitQuiet ==
    /\ dt = NoDt
    /\ boot = "cold"
    /\ oc = HsiOnly
    /\ muxsel = NoMuxsel
    /\ divr = NoDivr
    /\ clkinit = ClkInitIdle

\* The state stm32mp1_clk_init() starts from: topology t, boot state b.
ClkInitBoot(t, b) ==
    /\ dt = t
    /\ boot = b
    /\ stm32mp1_osc = t.osc
    /\ rckselr = [p \in PllIds |->
                    CASE MpuReset(b) -> t.clksrc.PLL12
                      [] b = "usb" /\ p = "_PLL4" -> 1
                      [] OTHER -> 0]
    /\ pll = [p \in PllIds |->
                CASE b = "running"  -> PllFromDt(t, p, TRUE, t.pllcfg[p].o)
                  [] b = "starting" -> PllFromDt(t, p, FALSE, {})
                  [] b = "usb" /\ p = "_PLL4" -> BootRomPll4
                  [] OTHER -> PllReset]
    /\ mpckselr = [src |-> IF b = "running" THEN t.clksrc.MPU ELSE "HSI",
                   srcrdy |-> TRUE]
    /\ mpckdivr = [mpudiv |-> 0, divrdy |-> TRUE]
    /\ oc = IF b \in {"running", "usb"}
            THEN [HsiOnly EXCEPT !.on = @ \cup {"_HSE"}, !.rdy = @ \cup {"_HSE"}]
            ELSE HsiOnly
    /\ muxsel = IF b = "running"
                THEN [NoMuxsel EXCEPT !["AXI"].src = t.clksrc.AXI,
                                      !["MCU"].src = t.clksrc.MCU]
                ELSE NoMuxsel
    /\ ckselr = [FieldsAt(0) EXCEPT !["_USBPHY_SEL"] = BootRomUsbSel(b)[1],
                                    !["_USBO_SEL"] = BootRomUsbSel(b)[2]]
    /\ divr = NoDivr
    /\ clkinit = ClkInitIdle
    /\ pll1_settings = NoSettings
    /\ current_opp_khz = 0
    /\ opp = OppIdle("none")
    /\ opp_calls = 0
    /\ opp_hist = NoHist

\* clkinit after a step that goes on to pc; t names the poll of the step
\* when it timed out, "none" otherwise.
InitGoto(pc, t) ==
    [clkinit EXCEPT !.pc = pc,
                    !.timeout = IF @ = "none" THEN t ELSE @,
                    !.later = @ \/ clkinit.timeout # "none"]

\* History: r with the registers W of the PLLs added to those the call
\* has written.  A write is <<PLL, register>>; the writes of PLLxCR are
\* told apart by the function that makes them.
Wrote(r, W) == [r EXCEPT !.wrote = @ \cup W]

\* clkinit after a step that makes stm32mp1_clk_init() return ret.
InitReturn(ret, t) == [InitGoto("done", t) EXCEPT !.ret = ret]

\* What no step of stm32mp1_clk_init() writes.
InitFrameSel ==
    UNCHANGED <<gateVars, smpVars, dt, boot, stm32mp1_osc, pll1_settings,
                current_opp_khz, opp, opp_calls, opp_hist, rounded,
                rcc_regs, backup, pm, cas, pllrate, clkrate, parent, pllop, bdcr, oscop, stopmode, poll, pwr>>

InitFrame == InitFrameSel /\ UNCHANGED ckselr

\* Entry of stm32mp1_clk_init(): the parents of STGEN_K and USBPHY_K are
\* resolved and the device tree is read.
clk_init_entry ==
    /\ clkinit.pc = "idle"
    /\ clkinit' = [InitGoto("lsi", "none") EXCEPT
                      !.stgen_p = stm32mp1_clk_get_parent(image, ckselr, "STGEN_K").ret,
                      !.usbphy_p = stm32mp1_clk_get_parent(image, ckselr, "USBPHY_K").ret]
    /\ UNCHANGED <<rckselr, pll, mpckselr, mpckdivr, oc, muxsel, divr>>
    /\ InitFrame

OscOfStep(pc) ==
    CASE pc = "lsi" -> "_LSI"
      [] pc = "hse" -> "_HSE"
      [] pc = "csi" -> "_CSI"

\* stm32mp1_lsi_set(true), stm32mp1_hse_enable(), stm32mp1_csi_set(true):
\* the ON bit is set and the ready bit polled; `ready' is whether it read 1
\* before OSCRDY_TIMEOUT.  A timeout is only logged.
clk_init_osc_set ==
    /\ clkinit.pc \in {"lsi", "hse", "csi"}
    /\ LET o == OscOfStep(clkinit.pc) IN
       IF clkinit.pc # "csi" /\ stm32mp1_osc[o] = 0
       THEN /\ oc' = oc
            /\ clkinit' = InitGoto(StepAfter(clkinit.pc), "none")
       ELSE \E ready \in BOOLEAN :
            /\ oc' = [oc EXCEPT !.on = @ \cup {o},
                                !.rdy = IF ready THEN @ \cup {o} ELSE @ \ {o}]
            /\ clkinit' = InitGoto(StepAfter(clkinit.pc),
                                   IF ready THEN "none" ELSE clkinit.pc)
    /\ UNCHANGED <<rckselr, pll, mpckselr, mpckdivr, muxsel, divr>>
    /\ InitFrame

\* stm32mp1_lse_enable(): LSEON is set, the ready bit is polled later.
clk_init_lse_enable ==
    /\ clkinit.pc = "lse"
    /\ oc' = IF stm32mp1_osc["_LSE"] # 0
             THEN [oc EXCEPT !.on = @ \cup {"_LSE"}] ELSE oc
    /\ clkinit' = InitGoto("hse", "none")
    /\ UNCHANGED <<rckselr, pll, mpckselr, mpckdivr, muxsel, divr>>
    /\ InitFrame

\* The mux and the source of each stm32mp1_set_clksrc() call.
ClkSrcOfStep(pc) ==
    CASE pc = "mpu_hsi"   -> <<"MPU", "HSI">>
      [] pc = "axi_hsi"   -> <<"AXI", "HSI">>
      [] pc = "mcu_hsi"   -> <<"MCU", "HSI">>
      [] pc = "pll12_src" -> <<"PLL12", dt.clksrc.PLL12>>
      [] pc = "pll3_src"  -> <<"PLL3", dt.clksrc.PLL3>>
      [] pc = "pll4_src"  -> <<"PLL4", dt.clksrc.PLL4>>
      [] pc = "mpu_src"   -> <<"MPU", dt.clksrc.MPU>>
      [] pc = "axi_src"   -> <<"AXI", dt.clksrc.AXI>>
      [] pc = "mcu_src"   -> <<"MCU", dt.clksrc.MCU>>

\* The PLLs whose reference a mux selects.
PllsOfMux(mux) ==
    CASE mux = "PLL12" -> {"_PLL1", "_PLL2"}
      [] mux = "PLL3"  -> {"_PLL3"}
      [] mux = "PLL4"  -> {"_PLL4"}
      [] OTHER         -> {}

\* stm32mp1_set_clksrc() of stm32mp1_clk_init(); `ready' is whether SRCRDY
\* read 1 before CLKSRC_TIMEOUT.
clk_init_set_clksrc ==
    /\ clkinit.pc \in {"mpu_hsi", "axi_hsi", "mcu_hsi", "pll12_src", "pll3_src",
                       "pll4_src", "mpu_src", "axi_src", "mcu_src"}
    /\ LET c == ClkSrcOfStep(clkinit.pc) IN
       IF \/ clkinit.pc = "pll3_src" /\ clkinit.pll3_preserve
          \/ clkinit.pc = "pll4_src" /\ clkinit.pll4_preserve
       THEN /\ clkinit' = InitGoto(StepAfter(clkinit.pc), "none")
            /\ UNCHANGED <<rckselr, mpckselr, muxsel>>
       ELSE \E ready \in BOOLEAN :
            /\ mpckselr' = IF c[1] = "MPU"
                           THEN [src |-> c[2], srcrdy |-> ready] ELSE mpckselr
            /\ muxsel' = CASE c[1] \in {"AXI", "MCU"} ->
                                [muxsel EXCEPT ![c[1]] = [src |-> c[2], srcrdy |-> ready]]
                         [] c[1] \in {"PLL12", "PLL3", "PLL4"} ->
                                [muxsel EXCEPT ![c[1]] = [srcrdy |-> ready]]
                         [] OTHER -> muxsel
            /\ rckselr' = [p \in PllIds |->
                              IF p \in PllsOfMux(c[1]) THEN c[2] ELSE rckselr[p]]
            /\ clkinit' = Wrote(IF ready
                                THEN InitGoto(StepAfter(clkinit.pc), "none")
                                ELSE InitReturn("-ETIMEDOUT", clkinit.pc),
                                {<<p, "RCKSELR">> : p \in PllsOfMux(c[1])})
    /\ UNCHANGED <<pll, mpckdivr, oc, divr>>
    /\ InitFrame

\* After an MPU reset (RCC_MP_RSTSCLRR_MPUP0RSTF), PLL3 and PLL4 are kept
\* when stm32mp1_check_pll_conf() finds them configured as the device tree
\* describes.  On USB boot PLL4 is kept when it feeds STGEN or the USB PHY.
clk_init_preserve ==
    /\ clkinit.pc = "preserve"
    /\ LET keep(p, src) ==
              /\ MpuReset(boot)
              /\ stm32mp1_check_pll_conf(stm32mp1_osc, rckselr, pll[p], p, src,
                                         dt.pllcfg[p], dt.pllfracv[p])
           bootrom ==
              /\ UsbBoot(boot)
              /\ clkinit.stgen_p = "_PLL4_R" \/ clkinit.usbphy_p = "_PLL4_R"
       IN  clkinit' = [InitGoto("pll_stop", "none") EXCEPT
                          !.i = 1,
                          !.pll3_preserve = keep("_PLL3", dt.clksrc.PLL3),
                          !.pll4_preserve = bootrom \/ keep("_PLL4", dt.clksrc.PLL4),
                          !.pll4_bootrom = bootrom]
    /\ UNCHANGED <<rckselr, pll, mpckselr, mpckdivr, oc, muxsel, divr>>
    /\ InitFrame

\* Fault: the stop loop skips no PLL.
Preserved_never(p) == FALSE

\* The PLLs the stop loop skips.
Preserved(p) ==
    \/ p = "_PLL3" /\ clkinit.pll3_preserve
    \/ p = "_PLL4" /\ clkinit.pll4_preserve

\* clkinit after iteration clkinit.i of a loop over the PLLs that goes on;
\* pc is the step after the loop.
InitLoop(pc, t) ==
    IF clkinit.i < Len(PllOrder)
    THEN [InitGoto(clkinit.pc, t) EXCEPT !.i = @ + 1]
    ELSE [InitGoto(pc, t) EXCEPT !.i = 1]

\* One iteration of the stm32mp1_pll_stop() loop.
clk_init_pll_stop ==
    /\ clkinit.pc = "pll_stop"
    /\ LET p == PllOrder[clkinit.i] IN
       IF Preserved(p)
       THEN /\ pll' = pll
            /\ clkinit' = InitLoop("hsidiv", "none")
       ELSE \E stopped \in BOOLEAN :
            /\ pll' = [pll EXCEPT ![p] = stm32mp1_pll_stop(@, stopped)]
            /\ clkinit' = Wrote(IF stopped THEN InitLoop("hsidiv", "none")
                                ELSE InitReturn("-ETIMEDOUT", "pll_stop"),
                                {<<p, "CR:stop">>})
    /\ UNCHANGED <<rckselr, mpckselr, mpckdivr, oc, muxsel, divr>>
    /\ InitFrame

\* stm32mp1_hsidiv() and stm32mp1_set_hsidiv(); `ready' is whether
\* HSIDIVRDY read 1 before HSIDIV_TIMEOUT.
clk_init_hsidiv ==
    /\ clkinit.pc = "hsidiv"
    /\ LET hsidiv == stm32mp1_hsidiv(stm32mp1_osc["_HSI"], 0, MAX_HSI_HZ) IN
       IF stm32mp1_osc["_HSI"] = 0 \/ hsidiv = 0
       THEN /\ oc' = oc
            /\ clkinit' = InitGoto("mpudiv", "none")
       ELSE IF hsidiv = 4
       THEN /\ oc' = oc
            /\ clkinit' = InitReturn("-1", "none")
       ELSE \E ready \in BOOLEAN :
            /\ oc' = [oc EXCEPT !.hsidiv = hsidiv, !.hsidivrdy = ready]
            /\ clkinit' = IF ready THEN InitGoto("mpudiv", "none")
                          ELSE InitReturn("-ETIMEDOUT", "hsidiv")
    /\ UNCHANGED <<rckselr, pll, mpckselr, mpckdivr, muxsel, divr>>
    /\ InitFrame

\* RCC_MPCKDIVR and RCC_RTCDIVR are written without polling a ready bit.
clk_init_write_div ==
    /\ clkinit.pc \in {"mpudiv", "rtcdiv"}
    /\ IF clkinit.pc = "mpudiv"
       THEN /\ mpckdivr' = [mpckdivr EXCEPT !.mpudiv = dt.clkdiv.MPU]
            /\ divr' = divr
       ELSE /\ divr' = [divr EXCEPT !["RTC"].div = dt.clkdiv.RTC]
            /\ mpckdivr' = mpckdivr
    /\ clkinit' = InitGoto(StepAfter(clkinit.pc), "none")
    /\ UNCHANGED <<rckselr, pll, mpckselr, oc, muxsel>>
    /\ InitFrame

DivOfStep(pc) ==
    CASE pc = "axidiv"  -> "AXI"
      [] pc = "apb4div" -> "APB4"
      [] pc = "apb5div" -> "APB5"
      [] pc = "mcudiv"  -> "MCU"
      [] pc = "apb1div" -> "APB1"
      [] pc = "apb2div" -> "APB2"
      [] pc = "apb3div" -> "APB3"

\* stm32mp1_set_clkdiv() of stm32mp1_clk_init(); `ready' is whether DIVRDY
\* read 1 before CLKDIV_TIMEOUT.
clk_init_set_clkdiv ==
    /\ clkinit.pc \in {"axidiv", "apb4div", "apb5div", "mcudiv", "apb1div",
                       "apb2div", "apb3div"}
    /\ LET d == DivOfStep(clkinit.pc) IN
       \E ready \in BOOLEAN :
        /\ divr' = [divr EXCEPT ![d] = [div |-> dt.clkdiv[d], divrdy |-> ready]]
        /\ clkinit' = IF ready THEN InitGoto(StepAfter(clkinit.pc), "none")
                      ELSE InitReturn("-ETIMEDOUT", clkinit.pc)
    /\ UNCHANGED <<rckselr, pll, mpckselr, mpckdivr, oc, muxsel>>
    /\ InitFrame

\* stm32mp1_pll_config_output(): CFGR2 alone is written.
stm32mp1_pll_config_output(p, pllcfg) ==
    [p EXCEPT !.divp = pllcfg.p, !.divq = pllcfg.q, !.divr = pllcfg.r]

\* The loop that configures and starts the PLLs, from PLL number i: the
\* PLL registers after it and its return value ("0" when it completes).
RECURSIVE pll_config_loop(_, _, _, _, _, _)
pll_config_loop(osc, rsel, plls, t, i, w) ==
    IF i > Len(PllOrder) THEN [ret |-> "0", plls |-> plls, wrote |-> w]
    ELSE LET p == PllOrder[i] IN
         IF \/ p = "_PLL3" /\ clkinit.pll3_preserve
            \/ p = "_PLL4" /\ clkinit.pll4_preserve /\ ~clkinit.pll4_bootrom
            \/ ~t.pllcfg_valid[p]
         THEN pll_config_loop(osc, rsel, plls, t, i + 1, w)
         ELSE IF p = "_PLL4" /\ clkinit.pll4_bootrom
         THEN pll_config_loop(
                  osc, rsel,
                  [plls EXCEPT ![p] = stm32mp1_pll_config_output(@, t.pllcfg[p])],
                  t, i + 1, w \cup {<<p, "CFGR2">>})
         ELSE LET c == stm32mp1_pll_config(osc, rsel, plls[p], p, t.pllcfg[p],
                                           t.pllfracv[p])
              IN  IF c.ret # "0" THEN [ret |-> c.ret, plls |-> plls, wrote |-> w]
                  ELSE pll_config_loop(
                           osc, rsel,
                           [plls EXCEPT ![p] = stm32mp1_pll_start(c.p)], t, i + 1,
                           w \cup {<<p, "CFGR1">>, <<p, "FRACR">>, <<p, "CFGR2">>,
                                   <<p, "CR:start">>})

clk_init_pll_config ==
    /\ clkinit.pc = "pll_config"
    /\ LET r == pll_config_loop(stm32mp1_osc, rckselr, pll, dt, 1, {}) IN
        /\ pll' = r.plls
        /\ clkinit' = Wrote(IF r.ret = "0"
                            THEN [InitGoto(StepAfter("pll_config"), "none") EXCEPT !.i = 1]
                            ELSE InitReturn(r.ret, "none"),
                            r.wrote)
    /\ UNCHANGED <<rckselr, mpckselr, mpckdivr, oc, muxsel, divr>>
    /\ InitFrame

\* One iteration of the stm32mp1_pll_output() loop.
clk_init_pll_output ==
    /\ clkinit.pc = "pll_output"
    /\ LET p == PllOrder[clkinit.i] IN
       IF ~dt.pllcfg_valid[p]
       THEN /\ pll' = pll
            /\ clkinit' = InitLoop("lse_wait", "none")
       ELSE \E locked \in BOOLEAN :
            /\ pll' = [pll EXCEPT ![p] =
                          stm32mp1_pll_output(@, dt.pllcfg[p].o, locked)]
            /\ clkinit' = IF locked
                          THEN Wrote(InitLoop("lse_wait", "none"), {<<p, "CR:output">>})
                          ELSE InitReturn("-ETIMEDOUT", "pll_output")
    /\ UNCHANGED <<rckselr, mpckselr, mpckdivr, oc, muxsel, divr>>
    /\ InitFrame

\* stm32mp1_lse_wait(): a timeout is only logged.
clk_init_lse_wait ==
    /\ clkinit.pc = "lse_wait"
    /\ IF stm32mp1_osc["_LSE"] = 0
       THEN /\ oc' = oc
            /\ clkinit' = InitGoto(StepAfter("lse_wait"), "none")
       ELSE \E ready \in BOOLEAN :
            /\ oc' = [oc EXCEPT !.rdy = IF ready THEN @ \cup {"_LSE"}
                                        ELSE @ \ {"_LSE"}]
            /\ clkinit' = InitGoto(StepAfter("lse_wait"),
                                   IF ready THEN "none" ELSE "lse_wait")
    /\ UNCHANGED <<rckselr, pll, mpckselr, mpckdivr, muxsel, divr>>
    /\ InitFrame

\* stm32mp1_set_rtcsrc(): no ready bit is polled.
clk_init_rtcsrc ==
    /\ clkinit.pc = "rtcsrc"
    /\ clkinit' = [InitGoto(StepAfter("rtcsrc"), "none") EXCEPT !.i = 1]
    /\ UNCHANGED <<rckselr, pll, mpckselr, mpckdivr, oc, muxsel, divr>>
    /\ InitFrame

\* Fault: CLK_CKPER_DISABLED is written where the list has it.
clk_init_pkcs_in_place ==
    /\ clkinit.pc = "pkcs"
    /\ LET r == [InitGoto("pkcs", "none") EXCEPT
                    !.usbreg_bootrom = IF clkinit.i = 1 /\ clkinit.pll4_bootrom
                                       THEN UsbReg(ckselr) ELSE @]
       IN
       IF ~dt.pkcs_found
       THEN /\ clkinit' = InitGoto("hsi_off", "none")
            /\ ckselr' = ckselr
       ELSE IF clkinit.i > Len(dt.pkcs_cell)
       THEN /\ clkinit' = [r EXCEPT !.pc = "pkcs_ckper"]
            /\ ckselr' = ckselr
       ELSE LET pkcs == dt.pkcs_cell[clkinit.i] IN
            /\ clkinit' = [r EXCEPT !.i = @ + 1, !.pkcs_log = Append(@, pkcs)]
            /\ ckselr' = stm32mp1_pkcs_config(ckselr, pkcs)
    /\ UNCHANGED <<rckselr, pll, mpckselr, mpckdivr, oc, muxsel, divr>>
    /\ InitFrameSel

\* The st,pkcs loop, one word per step: RCC_USBCKSELR is read before the
\* first word when PLL4 is the boot ROM's; CLK_CKPER_DISABLED is noted, any
\* other word is written by stm32mp1_pkcs_config().  Without the property
\* the whole block is skipped.
clk_init_pkcs ==
    /\ clkinit.pc = "pkcs"
    /\ LET r == [InitGoto("pkcs", "none") EXCEPT
                    !.usbreg_bootrom = IF clkinit.i = 1 /\ clkinit.pll4_bootrom
                                       THEN UsbReg(ckselr) ELSE @]
       IN
       IF ~dt.pkcs_found
       THEN /\ clkinit' = InitGoto("hsi_off", "none")
            /\ ckselr' = ckselr
       ELSE IF clkinit.i > Len(dt.pkcs_cell)
       THEN /\ clkinit' = [r EXCEPT !.pc = "pkcs_ckper"]
            /\ ckselr' = ckselr
       ELSE LET pkcs == dt.pkcs_cell[clkinit.i] IN
            IF pkcs = CLK_CKPER_DISABLED
            THEN /\ clkinit' = [r EXCEPT !.i = @ + 1, !.ckper_disabled = TRUE]
                 /\ ckselr' = ckselr
            ELSE /\ clkinit' = [r EXCEPT !.i = @ + 1, !.pkcs_log = Append(@, pkcs)]
                 /\ ckselr' = stm32mp1_pkcs_config(ckselr, pkcs)
    /\ UNCHANGED <<rckselr, pll, mpckselr, mpckdivr, oc, muxsel, divr>>
    /\ InitFrameSel

\* After the loop CLK_CKPER_DISABLED is written if the list had it.
clk_init_pkcs_ckper ==
    /\ clkinit.pc = "pkcs_ckper"
    /\ IF clkinit.ckper_disabled
       THEN /\ ckselr' = stm32mp1_pkcs_config(ckselr, CLK_CKPER_DISABLED)
            /\ clkinit' = [InitGoto("pkcs_usb", "none") EXCEPT
                              !.pkcs_log = Append(@, CLK_CKPER_DISABLED)]
       ELSE /\ ckselr' = ckselr
            /\ clkinit' = InitGoto("pkcs_usb", "none")
    /\ UNCHANGED <<rckselr, pll, mpckselr, mpckdivr, oc, muxsel, divr>>
    /\ InitFrameSel

\* Fault: the USB muxes are not compared.
clk_init_pkcs_usb_unchecked ==
    /\ clkinit.pc = "pkcs_usb"
    /\ clkinit' = InitGoto("hsi_off", "none")
    /\ UNCHANGED <<rckselr, pll, mpckselr, mpckdivr, oc, muxsel, divr>>
    /\ InitFrame

\* With PLL4 kept from the boot ROM, RCC_USBCKSELR under the masks of
\* _USBPHY_SEL and _USBO_SEL is compared with what it read before the loop.
clk_init_pkcs_usb ==
    /\ clkinit.pc = "pkcs_usb"
    /\ clkinit' = IF clkinit.pll4_bootrom /\ clkinit.usbreg_bootrom # UsbReg(ckselr)
                  THEN InitReturn("-FDT_ERR_BADVALUE", "none")
                  ELSE InitGoto("hsi_off", "none")
    /\ UNCHANGED <<rckselr, pll, mpckselr, mpckdivr, oc, muxsel, divr>>
    /\ InitFrame

\* stm32mp1_hsi_set(false) when the device tree has no HSI: HSION is
\* cleared and HSIRDY polled; a timeout is only logged.
clk_init_hsi_off ==
    /\ clkinit.pc = "hsi_off"
    /\ IF stm32mp1_osc["_HSI"] # 0
       THEN /\ oc' = oc
            /\ clkinit' = InitGoto("return", "none")
       ELSE \E off \in BOOLEAN :
            /\ oc' = [oc EXCEPT !.on = @ \ {"_HSI"},
                                !.rdy = IF off THEN @ \ {"_HSI"} ELSE @]
            /\ clkinit' = InitGoto("return", IF off THEN "none" ELSE "hsi_off")
    /\ UNCHANGED <<rckselr, pll, mpckselr, mpckdivr, muxsel, divr>>
    /\ InitFrame

\* The end of stm32mp1_clk_init(): STGEN and DDRCKMOD, return 0.
clk_init_return ==
    /\ clkinit.pc = "return"
    /\ clkinit' = InitReturn("0", "none")
    /\ UNCHANGED <<rckselr, pll, mpckselr, mpckdivr, oc, muxsel, divr>>
    /\ InitFrame

\* ------------------------------------------------------------------------
\* stm32mp1_clock_suspend() and stm32mp1_clock_resume()
\* ------------------------------------------------------------------------

MUXCFG(offset, bit_len) == [offset |-> offset, bit_len |-> bit_len]

backup_mux0_cfg == <<
    MUXCFG("RCC_SDMMC12CKSELR", 3), MUXCFG("RCC_SPI2S23CKSELR", 3),
    MUXCFG("RCC_SPI45CKSELR", 3), MUXCFG("RCC_I2C12CKSELR", 3),
    MUXCFG("RCC_I2C35CKSELR", 3), MUXCFG("RCC_LPTIM23CKSELR", 3),
    MUXCFG("RCC_LPTIM45CKSELR", 3), MUXCFG("RCC_UART24CKSELR", 3),
    MUXCFG("RCC_UART35CKSELR", 3), MUXCFG("RCC_UART78CKSELR", 3),
    MUXCFG("RCC_SAI1CKSELR", 3), MUXCFG("RCC_ETHCKSELR", 2),
    MUXCFG("RCC_I2C46CKSELR", 3), MUXCFG("RCC_RNG2CKSELR", 2),
    MUXCFG("RCC_SDMMC3CKSELR", 3), MUXCFG("RCC_FMCCKSELR", 2),
    MUXCFG("RCC_QSPICKSELR", 2), MUXCFG("RCC_USBCKSELR", 2),
    MUXCFG("RCC_SPDIFCKSELR", 2), MUXCFG("RCC_SPI2S1CKSELR", 3),
    MUXCFG("RCC_CECCKSELR", 2), MUXCFG("RCC_LPTIM1CKSELR", 3),
    MUXCFG("RCC_UART6CKSELR", 3), MUXCFG("RCC_FDCANCKSELR", 2),
    MUXCFG("RCC_SAI2CKSELR", 3), MUXCFG("RCC_SAI3CKSELR", 3),
    MUXCFG("RCC_SAI4CKSELR", 3), MUXCFG("RCC_ADCCKSELR", 2),
    MUXCFG("RCC_DSICKSELR", 1), MUXCFG("RCC_CPERCKSELR", 2),
    MUXCFG("RCC_RNG1CKSELR", 2), MUXCFG("RCC_STGENCKSELR", 2),
    MUXCFG("RCC_UART1CKSELR", 3), MUXCFG("RCC_SPI6CKSELR", 3) >>

backup_mux4_cfg == << MUXCFG("RCC_USBCKSELR", 1) >>

backup_clock_sc_cfg == <<
    "RCC_MP_APB1ENSETR", "RCC_MP_APB2ENSETR", "RCC_MP_APB3ENSETR",
    "RCC_MP_APB4ENSETR", "RCC_MP_APB5ENSETR", "RCC_MP_AHB2ENSETR",
    "RCC_MP_AHB3ENSETR", "RCC_MP_AHB4ENSETR", "RCC_MP_AHB5ENSETR",
    "RCC_MP_AHB6ENSETR", "RCC_MP_MLAHBENSETR" >>

backup_clock_cfg == <<
    "RCC_MCO1CFGR", "RCC_MCO2CFGR", "RCC_PLL3CR", "RCC_PLL4CR",
    "RCC_PLL4CFGR2", "RCC_MCUDIVR", "RCC_MSSCKSELR" >>

\* The bits h..l of a word; a word is the set of its bits that read 1.
GENMASK_32(h, l) == l..h

\* Mask of a slice of backup_mux0_cfg[] (shift 0) or backup_mux4_cfg[]
\* (shift 4).
MuxMask(cfg, shift) == GENMASK_32(shift + cfg.bit_len - 1, shift)

\* The registers of the snapshot that are not gate registers of
\* stm32mp1_clk_gate[].
PmRegs ==
    {backup_mux0_cfg[i].offset : i \in 1..Len(backup_mux0_cfg)}
        \cup {backup_clock_cfg[i] : i \in 1..Len(backup_clock_cfg)}
        \cup ({backup_clock_sc_cfg[i] : i \in 1..Len(backup_clock_sc_cfg)}
                 \ GateRegs)

\* mmio_read_32() of a register of the snapshot.
PmRead(en, regs, off) == IF off \in GateRegs THEN en[off] ELSE regs[off]

\* backup_regular_cfg(), backup_sc_cfg(), backup_mux_cfg(): the .value
\* fields after stm32mp1_clock_suspend().
backup_cfg(en, regs) ==
    [regular |-> [i \in 1..Len(backup_clock_cfg) |-> regs[backup_clock_cfg[i]]],
     sc      |-> [i \in 1..Len(backup_clock_sc_cfg) |->
                     PmRead(en, regs, backup_clock_sc_cfg[i])],
     mux0    |-> [i \in 1..Len(backup_mux0_cfg) |->
                     regs[backup_mux0_cfg[i].offset]
                        \cap MuxMask(backup_mux0_cfg[i], 0)],
     mux4    |-> [i \in 1..Len(backup_mux4_cfg) |->
                     regs[backup_mux4_cfg[i].offset]
                        \cap MuxMask(backup_mux4_cfg[i], 4)]]

\* mmio_clrsetbits_32()
mmio_clrsetbits_32(word, clear, set) == (word \ clear) \cup set

\* restore_mux_cfg() over one table: every slice of cfg[] is rewritten with
\* its saved value by mmio_clrsetbits_32(); the slices of one register do
\* not overlap, so the order of the loop does not show.
restore_mux_table(regs, cfg, values, shift) ==
    [off \in DOMAIN regs |->
        LET idx == {i \in 1..Len(cfg) : cfg[i].offset = off} IN
        mmio_clrsetbits_32(
            regs[off],
            UNION {MuxMask(cfg[i], shift) : i \in idx},
            UNION {values[i] \cap MuxMask(cfg[i], shift) : i \in idx})]

restore_mux_cfg(regs, b) ==
    restore_mux_table(restore_mux_table(regs, backup_mux0_cfg, b.mux0, 0),
                      backup_mux4_cfg, b.mux4, 4)

\* The value a register of backup_clock_sc_cfg[] holds in the snapshot.
ScValue(b, off) ==
    b.sc[CHOOSE i \in 1..Len(backup_clock_sc_cfg) : backup_clock_sc_cfg[i] = off]

ScOffsets == {backup_clock_sc_cfg[i] : i \in 1..Len(backup_clock_sc_cfg)}

\* Fault: the clear register is not written.
restore_sc_cfg_set_only(word, value) == word \cup value

\* restore_sc_cfg() on one register pair: value is written to the set
\* register and ~value to the clear register.
restore_sc_cfg(word, value) == (word \cup value) \ ((0..31) \ value)

\* restore_sc_cfg() over the registers of backup_clock_sc_cfg[] that regs
\* holds.
restore_sc_regs(regs, b) ==
    [off \in DOMAIN regs |->
        IF off \in ScOffsets
        THEN restore_sc_cfg(regs[off], ScValue(b, off))
        ELSE regs[off]]

\* restore_regular_cfg()
restore_regular_cfg(regs, b) ==
    [off \in DOMAIN regs |->
        IF \E i \in 1..Len(backup_clock_cfg) : backup_clock_cfg[i] = off
        THEN b.regular[CHOOSE i \in 1..Len(backup_clock_cfg) :
                          backup_clock_cfg[i] = off]
        ELSE regs[off]]

\* The gates the loop of stm32mp1_clock_resume() does not skip: neither
\* always on nor non-secure.
SyncedGateTable ==
    [img \in Images |->
        {idx \in 1..NB_GATES(img) :
            /\ ~clock_is_always_on(gate_ref(img, idx).index)
            /\ ~gate_is_non_secure(gate_ref(img, idx))}]

SyncedGates(img) == SyncedGateTable[img]

\* The loop of stm32mp1_clock_resume(): __clk_enable() on the gates whose
\* refcount is not 0 and __clk_disable() on the others.  No two gates
\* share a bit, so the register values do not depend on the loop order.
resume_sync(img, en, cnts) ==
    [off \in DOMAIN en |->
        LET here == {i \in SyncedGates(img) : gate_ref(img, i).offset = off} IN
        (en[off] \ {gate_ref(img, i).bit : i \in {j \in here : cnts[j] = 0}})
            \cup {gate_ref(img, i).bit : i \in {j \in here : cnts[j] # 0}}]

\* Register values before suspend and after the loss of power.
PmWords == {{0, 1, 4}, {2, 3, 5, 7}}

NoBackup ==
    [regular |-> [i \in 1..Len(backup_clock_cfg) |-> {}],
     sc      |-> [i \in 1..Len(backup_clock_sc_cfg) |-> {}],
     mux0    |-> [i \in 1..Len(backup_mux0_cfg) |-> {}],
     mux4    |-> [i \in 1..Len(backup_mux4_cfg) |-> {}]]

\* ker_mask of disable_kernel_clocks(): RCC_OCENR_HSIKERON,
\* RCC_OCENR_CSIKERON, RCC_OCENR_HSEKERON.
ker_mask == {"HSIKERON", "CSIKERON", "HSEKERON"}

\* History of a suspend/resume cycle: the registers at suspend, whether
\* the low-power state lost them, the writes of the resume in order.
PmRun ==
    [phase |-> "run", lost |-> FALSE, pre_en |-> <<>>, pre_regs |-> <<>>,
     log |-> <<>>]

PmQuiet ==
    /\ rcc_regs = [off \in PmRegs |-> {}]
    /\ backup = NoBackup
    /\ pm = PmRun

PmInit ==
    /\ \E w \in PmWords : rcc_regs = [off \in PmRegs |-> w]
    /\ backup = NoBackup
    /\ pm = PmRun

\* Clock ids the callers of the suspend/resume behaviours use.
PmClockIds == {"SPI6_K", "DDRC1", "GPIOA", "RTC"}

\* Bring-up at rest, the kernel clocks of the oscillators on.
PmOscInit ==
    /\ dt = NoDt
    /\ boot = "cold"
    /\ oc = [HsiOnly EXCEPT !.on = @ \cup ker_mask]
    /\ muxsel = NoMuxsel
    /\ divr = NoDivr
    /\ clkinit = ClkInitIdle

PmFrameOc ==
    UNCHANGED <<image, tid, gate_refcounts, panicked, boot_en, ens, dis, peak,
                forced, seen, smpVars, dvfsVars, rounded, dt, boot, muxsel,
                divr, clkinit, cas, pllrate, clkrate, ckselr, parent, pllop, bdcr, oscop, stopmode, poll, pwr>>

PmFrame == PmFrameOc /\ UNCHANGED oc

stm32mp1_clock_suspend ==
    /\ panicked = "none"
    /\ pm.phase = "run"
    /\ backup' = backup_cfg(rcc_en, rcc_regs)
    /\ pm' = [phase |-> "suspended", lost |-> FALSE,
              pre_en |-> rcc_en, pre_regs |-> rcc_regs, log |-> <<>>]
    /\ UNCHANGED <<rcc_en, rcc_regs>>
    /\ PmFrame

\* The low-power state: the RCC registers lose their content.
standby ==
    /\ pm.phase = "suspended"
    /\ \E w \in PmWords, on \in BOOLEAN, ker \in BOOLEAN :
        /\ rcc_regs' = [off \in PmRegs |-> w]
        /\ rcc_en' = [off \in GateRegs |-> IF on THEN GateBits(off) ELSE {}]
        /\ oc' = [oc EXCEPT !.on = IF ker THEN @ \cup ker_mask ELSE @ \ ker_mask]
    /\ pm' = [pm EXCEPT !.phase = "standby", !.lost = TRUE]
    /\ UNCHANGED backup
    /\ PmFrameOc

\* The writes of restore_sc_cfg() in program order: for each register the
\* set register, then the clear register.
ScWrites ==
    [k \in 1..(2 * Len(backup_clock_sc_cfg)) |->
        IF k % 2 = 1 THEN <<"ENSETR", backup_clock_sc_cfg[(k + 1) \div 2]>>
        ELSE <<"ENCLRR", backup_clock_sc_cfg[k \div 2]>>]

\* pm after a step of stm32mp1_clock_resume() that goes on to phase,
\* having made the writes w.
PmGoto(phase, w) == [pm EXCEPT !.phase = phase, !.log = @ \o w]

\* stm32mp1_clock_resume(): restore_mux_cfg()
clock_resume_mux ==
    /\ pm.phase \in {"suspended", "standby"}
    /\ rcc_regs' = restore_mux_cfg(rcc_regs, backup)
    /\ pm' = PmGoto("restore_sc", << <<"restore_mux_cfg", "CKSELR">> >>)
    /\ UNCHANGED <<rcc_en, backup>>
    /\ PmFrame

\* restore_sc_cfg()
clock_resume_sc ==
    /\ pm.phase = "restore_sc"
    /\ rcc_regs' = restore_sc_regs(rcc_regs, backup)
    /\ rcc_en' = restore_sc_regs(rcc_en, backup)
    /\ pm' = PmGoto("restore_regular", ScWrites)
    /\ UNCHANGED backup
    /\ PmFrame

\* restore_regular_cfg()
clock_resume_regular ==
    /\ pm.phase = "restore_regular"
    /\ rcc_regs' = restore_regular_cfg(rcc_regs, backup)
    /\ pm' = PmGoto("sync", << <<"restore_regular_cfg", "CFGR">> >>)
    /\ UNCHANGED <<rcc_en, backup>>
    /\ PmFrame

\* Fault: the loop follows the restored bitmap, not the refcounts.
clock_resume_sync_skipped ==
    /\ pm.phase = "sync"
    /\ pm' = PmGoto("disable_kernel_clocks", << <<"sync", "EN">> >>)
    /\ UNCHANGED <<rcc_en, rcc_regs, backup>>
    /\ PmFrame

\* The loop over the gates: the secure gates that are not always on are
\* enabled or disabled after their refcount.
clock_resume_sync ==
    /\ pm.phase = "sync"
    /\ rcc_en' = resume_sync(image, rcc_en, gate_refcounts)
    /\ pm' = PmGoto("disable_kernel_clocks", << <<"sync", "EN">> >>)
    /\ UNCHANGED <<rcc_regs, backup>>
    /\ PmFrame

\* disable_kernel_clocks(): ker_mask is written to RCC_OCENCLRR.
clock_resume_ker ==
    /\ pm.phase = "disable_kernel_clocks"
    /\ oc' = [oc EXCEPT !.on = @ \ ker_mask]
    /\ pm' = PmGoto("resumed", << <<"disable_kernel_clocks", "RCC_OCENCLRR">> >>)
    /\ UNCHANGED <<rcc_en, rcc_regs, backup>>
    /\ PmFrameOc

\* ------------------------------------------------------------------------
\* clk_compute_pll1_settings() and stm32mp1_clk_compute_all_pll1_settings()
\* ------------------------------------------------------------------------

POST_DIVM_MIN == 8000000
POST_DIVM_MAX == 16000000
DIVM_MIN == 0
DIVM_MAX == 63
DIVN_MIN == 24
DIVN_MAX == 99
DIVP_MIN == 0
DIVP_MAX == 127
FRAC_MAX == 8192
VCO_MIN == 800000000
VCO_MAX == 1600000000

\* best_diff = UINT_MAX: no candidate was kept yet.  Every diff the search
\* computes is below UINT_MAX, so `diff < best_diff' always holds then.
NO_BEST_DIFF == -1

\* The locals of clk_compute_pll1_settings() that outlive an iteration;
\* done is set when the function returned 0 on diff == 0.
SearchStart ==
    [best_diff |-> NO_BEST_DIFF, divm |-> 0, divn |-> 0, divp |-> 0, frac |-> 0,
     done |-> FALSE]

\* The `for (i = 2; i != 0; i--)' loop that refines the fractional part.
RECURSIVE compute_refine_loop(_, _, _, _, _, _, _, _)
compute_refine_loop(st, post_divm, output_freq, divm, divn, divp, frac, i) ==
    IF i = 0 \/ st.done \/ frac > FRAC_MAX THEN st
    ELSE LET vco == post_divm * (divn + 1) + MulDiv(post_divm, frac, FRAC_MAX) IN
         IF vco < VCO_MIN \div 2 \/ vco > VCO_MAX \div 2
         THEN compute_refine_loop(st, post_divm, output_freq, divm, divn, divp,
                                  frac + 1, i - 1)
         ELSE LET freq == vco \div (divp + 1)
                  diff == IF output_freq < freq THEN freq - output_freq
                          ELSE output_freq - freq
              IN  IF st.best_diff = NO_BEST_DIFF \/ diff < st.best_diff
                  THEN compute_refine_loop(
                           [best_diff |-> diff, divm |-> divm, divn |-> divn,
                            divp |-> divp, frac |-> frac, done |-> diff = 0],
                           post_divm, output_freq, divm, divn, divp, frac + 1, i - 1)
                  ELSE compute_refine_loop(st, post_divm, output_freq, divm, divn,
                                           divp, frac + 1, i - 1)

\* divn and frac of one (divm, divp): with freq = output_freq * (divm + 1) *
\* (divp + 1) = q * input_freq + r, divn is q - 1 and
\* (freq * FRAC_MAX) / input_freq - (divn + 1) * FRAC_MAX is
\* (r * FRAC_MAX) / input_freq.
SearchDivnFrac(input_freq, output_freq, divm, divp) ==
    LET qr == MulDivQR(output_freq, (divm + 1) * (divp + 1), input_freq) IN
    [divn |-> qr[1] - 1, frac |-> MulDiv(qr[2], FRAC_MAX, input_freq)]

\* What the refinement loop keeps for one (divm, divp) when nothing better
\* was kept before; best_diff stays NO_BEST_DIFF when divn is out of range
\* or no iteration has its VCO in range.
SearchPair(input_freq, output_freq, divm, divp) ==
    LET c == SearchDivnFrac(input_freq, output_freq, divm, divp) IN
    IF c.divn < DIVN_MIN \/ c.divn > DIVN_MAX THEN SearchStart
    ELSE compute_refine_loop(SearchStart, input_freq \div (divm + 1), output_freq,
                             divm, c.divn, divp, c.frac, 2)

\* The position of (divm, divp) in the two outer loops: divm from DIVM_MAX
\* down, divp from DIVP_MIN up.
SearchOrder(st) == (DIVM_MAX - st.divm) * (DIVP_MAX + 1) + st.divp

\* The two outer loops.  A candidate replaces the kept one only when its
\* diff is strictly smaller, and the function returns at the first diff of
\* 0: what is kept at the end is, among the candidates of least diff, the
\* one the loops meet first.
compute_loops(input_freq, output_freq) ==
    LET divms == {divm \in DIVM_MIN..DIVM_MAX :
                     /\ input_freq \div (divm + 1) >= POST_DIVM_MIN
                     /\ input_freq \div (divm + 1) <= POST_DIVM_MAX}
        kept  == {st \in {SearchPair(input_freq, output_freq, divm, divp) :
                              divm \in divms, divp \in DIVP_MIN..DIVP_MAX} :
                     st.best_diff # NO_BEST_DIFF}
        least == {st \in kept : \A o \in kept : st.best_diff <= o.best_diff}
    IN  IF kept = {} THEN SearchStart
        ELSE CHOOSE st \in least : \A o \in least : SearchOrder(st) <= SearchOrder(o)

\* The reference frequencies and the targets (kHz) the behaviours search
\* for, and the outcome of the two loops for each, tabulated.
SearchInputs == {24000000, 64000000}

SearchTargets == {1000, 162500, 167619, 325000, 400000, 599999, 650000, 800000}

SearchTable ==
    [input_freq \in SearchInputs |->
        [freq_khz \in SearchTargets |-> compute_loops(input_freq, freq_khz * 1000)]]

\* clk_compute_pll1_settings(): Q, R and O are written first; M, N, P and
\* *fracv only when a candidate is kept.
clk_compute_pll1_settings(input_freq, freq_khz, pllcfg, fracv) ==
    LET st == SearchTable[input_freq][freq_khz]
        qr == [pllcfg EXCEPT !.q = 0, !.r = 0, !.o = {"_DIV_P"}]
    IN  IF st.best_diff = NO_BEST_DIFF
        THEN [ret |-> "-1", cfg |-> qr, frac |-> fracv]
        ELSE [ret |-> "0",
              cfg |-> [qr EXCEPT !.m = st.divm, !.n = st.divn, !.p = st.divp],
              frac |-> st.frac]

ZeroCfg == [m |-> 0, n |-> 0, p |-> 0, q |-> 0, r |-> 0, o |-> {}]

ComputedTable ==
    [input_freq \in SearchInputs |->
        [freq_khz \in SearchTargets |->
            clk_compute_pll1_settings(input_freq, freq_khz, ZeroCfg, 0)]]

\* pll1_settings as the image starts with it (zero-initialised).
SettingsBss ==
    [valid_id |-> "0", freq |-> [i \in 1..PLAT_MAX_OPP_NB |-> 0],
     cfg |-> [i \in 1..PLAT_MAX_OPP_NB |-> ZeroCfg],
     frac |-> [i \in 1..PLAT_MAX_OPP_NB |-> 0]]

\* clk_get_pll1_settings() for table entry i, whose frequency is freq_khz:
\* the entry is computed (into itself) when the output field of the first
\* entry of that frequency is 0 and copied from that entry otherwise.
clk_get_pll1_settings(settings, input_freq, freq_khz, i) ==
    LET j == CHOOSE k \in 1..PLAT_MAX_OPP_NB :
                 /\ settings.freq[k] = freq_khz
                 /\ \A l \in 1..(k - 1) : settings.freq[l] # freq_khz
    IN  IF settings.cfg[j].o = {}
        THEN clk_compute_pll1_settings(input_freq, freq_khz, settings.cfg[i],
                                       settings.frac[i])
        ELSE [ret |-> "0", cfg |-> settings.cfg[j], frac |-> settings.frac[j]]

\* clk_save_current_pll1_settings(0): the index (from 1) of the entry whose
\* frequency is the MPU rate in kHz, 0 for the -1 of the C function.
SaveIndex(settings, freq) ==
    IF \E i \in 1..PLAT_MAX_OPP_NB : settings.freq[i] = freq
    THEN CHOOSE i \in 1..PLAT_MAX_OPP_NB :
             /\ settings.freq[i] = freq
             /\ \A l \in 1..(i - 1) : settings.freq[l] # freq
    ELSE 0

clk_save_current_pll1_settings(settings, p, freq) ==
    LET i == SaveIndex(settings, freq) IN
    IF i = 0 THEN settings
    ELSE [settings EXCEPT
             !.cfg[i] = [m |-> p.divm, n |-> p.divn, p |-> p.divp, q |-> p.divq,
                         r |-> p.divr, o |-> p.diven],
             !.frac[i] = p.fracv]

\* OPP frequencies (kHz) the device tree lists, in its order.
OppDt ==
    { <<650000, 800000>>, <<325000, 650000>>, <<162500, 650000>>,
      <<167619, 400000>>, <<599999, 650000>>, <<650000, 1000>>, <<650000>> }

NoCall == [input_freq |-> 0, freq_khz |-> 0, ret |-> "none", cfg |-> ZeroCfg, frac |-> 0]

\* Calls of stm32mp1_clk_compute_all_pll1_settings() in one behaviour.
MaxCasCalls == 2

\* What dt_get_all_opp_freqvolt() returns: 0, -FDT_ERR_NOTFOUND (no OPP
\* table) or another error (inconsistent table).
DtRets == {"0", "-FDT_ERR_NOTFOUND", "-FDT_ERR_BADVALUE"}

CasIdle ==
    [pc |-> "idle", dt |-> <<>>, dtret |-> "0", calls |-> 0, i |-> 0, index |-> 0,
     ret |-> "none", last |-> NoCall, snaps |-> {}]

CasQuiet == cas = CasIdle

\* PLL1 as stm32mp1_clk_init() left it, on HSI (reference select 0, 64 MHz)
\* or HSE (1, 24 MHz), with the MPU on PLL1_P, on PLL1_P / 2 or on HSI; the
\* device tree lists `table' and dt_get_all_opp_freqvolt() returns dtret.
CasBoot(refsel, divp, src, table, dtret) ==
    /\ stm32mp1_osc = BoardOsc
    /\ rckselr = [p \in PllIds |-> refsel]
    /\ pll = [p \in PllIds |->
                IF p = "_PLL1"
                THEN PllRunning(PllCfg(IF refsel = 0 THEN 7 ELSE 2, 80, divp), 2048)
                ELSE PllReset]
    /\ mpckselr = [src |-> src, srcrdy |-> TRUE]
    /\ mpckdivr = [mpudiv |-> IF src = "PLL_MPUDIV" THEN 1 ELSE 0, divrdy |-> TRUE]
    /\ pll1_settings = SettingsBss
    \* stm32mp1_clk_probe()
    /\ current_opp_khz =
          udiv_round_nearest(
              get_clock_rate_CK_MPU(stm32mp1_osc, rckselr, pll, mpckselr, mpckdivr),
              1000)
    /\ opp = OppIdle("none")
    /\ opp_calls = 0
    /\ opp_hist = NoHist
    /\ cas = [CasIdle EXCEPT !.dt = table, !.dtret = dtret]

CasInit ==
    \E refsel \in {0, 1}, divp \in {0, 1}, src \in {"PLL", "PLL_MPUDIV", "HSI"},
       table \in OppDt :
        CasBoot(refsel, divp, src, table, "0")

CasFrame ==
    UNCHANGED <<gateVars, smpVars, stm32mp1_osc, rckselr, pll, mpckselr, mpckdivr,
                current_opp_khz, opp, opp_calls, opp_hist, rounded, dt, boot, oc,
                muxsel, divr, clkinit, rcc_regs, backup, pm, pllrate, clkrate, ckselr, parent, pllop, bdcr, oscop, stopmode, poll, pwr>>

\* The reference of PLL1: stm32mp_clk_get_rate(CK_HSI) or (CK_HSE), as
\* stm32mp1_clk_get_pll1_current_clksrc() selects.
Pll1InputFreq == stm32mp1_pll_get_fref(stm32mp1_osc, rckselr, "_PLL1")

\* pll1_settings.freq[] after dt_get_all_opp_freqvolt() wrote the first k
\* frequencies of the device tree into it.
FreqListed(settings, table, k) ==
    [settings EXCEPT
        !.freq = [i \in 1..PLAT_MAX_OPP_NB |->
                     IF i <= k THEN table[i]
                     ELSE IF k = Len(table) THEN 0 ELSE settings.freq[i]]]

\* Entry of stm32mp1_clk_compute_all_pll1_settings():
\* dt_get_all_opp_freqvolt() fills pll1_settings.freq[] and the function
\* returns 0 when it reports an error (it may have written any number of
\* frequencies before an error other than -FDT_ERR_NOTFOUND); otherwise
\* clk_save_current_pll1_settings() saves the running PLL1.
compute_all_entry ==
    /\ cas.pc \in {"idle", "done"} /\ cas.dt # <<>>
    /\ cas.calls < MaxCasCalls
    /\ IF cas.dtret # "0"
       THEN /\ \E k \in 0..(Len(cas.dt) - 1) :
                  /\ cas.dtret = "-FDT_ERR_NOTFOUND" => k = 0
                  /\ pll1_settings' = [pll1_settings EXCEPT
                                          !.freq = FreqListed(pll1_settings,
                                                              cas.dt, k).freq]
            /\ cas' = [cas EXCEPT !.pc = "done", !.ret = "0", !.calls = @ + 1]
       ELSE LET listed == FreqListed(pll1_settings, cas.dt, Len(cas.dt))
                freq   == udiv_round_nearest(
                              get_clock_rate_CK_MPU(stm32mp1_osc, rckselr, pll,
                                                    mpckselr, mpckdivr), 1000)
                index  == SaveIndex(listed, freq)
                saved  == clk_save_current_pll1_settings(listed, pll["_PLL1"], freq)
            IN  /\ pll1_settings' = saved
                /\ cas' = [cas EXCEPT
                              !.pc = "loop", !.i = 1, !.index = index,
                              !.ret = "none", !.calls = @ + 1,
                              !.snaps = IF index = 0 THEN @
                                        ELSE @ \cup {<<index, saved.cfg[index],
                                                       saved.frac[index]>>}]
    /\ CasFrame

\* One iteration of the loop over the entries.
compute_all_loop ==
    /\ cas.pc = "loop" /\ cas.i <= Len(cas.dt)
    /\ IF cas.i = cas.index
       THEN /\ cas' = [cas EXCEPT !.i = @ + 1]
            /\ UNCHANGED pll1_settings
       ELSE LET r == clk_get_pll1_settings(pll1_settings, Pll1InputFreq,
                                           pll1_settings.freq[cas.i], cas.i)
                computed == pll1_settings.cfg[cas.i].o = {}
                call == IF computed
                        THEN [input_freq |-> Pll1InputFreq,
                              freq_khz |-> pll1_settings.freq[cas.i],
                              ret |-> r.ret, cfg |-> r.cfg, frac |-> r.frac]
                        ELSE cas.last
            IN  /\ pll1_settings' = [pll1_settings EXCEPT !.cfg[cas.i] = r.cfg,
                                                           !.frac[cas.i] = r.frac]
                /\ cas' = IF r.ret # "0"
                          THEN [cas EXCEPT !.pc = "done", !.ret = r.ret, !.last = call]
                          ELSE [cas EXCEPT !.i = @ + 1, !.last = call]
    /\ CasFrame

compute_all_return ==
    /\ cas.pc = "loop" /\ cas.i > Len(cas.dt)
    /\ pll1_settings' = [pll1_settings EXCEPT !.valid_id = PLL1_SETTINGS_VALID_ID]
    /\ cas' = [cas EXCEPT !.pc = "done", !.ret = "0"]
    /\ CasFrame

\* ------------------------------------------------------------------------
\* stm32mp1_read_pll_freq() on registers of any content
\* ------------------------------------------------------------------------

\* Register fields and references the rate is read for.
RateDivm == {0, 1, 2, 7, 63}

RateDivn == {0, 24, 65, 99, 199}

RateFracv == {0, 4096, 8191}

RateDivp == {0, 1, 127}

NoRate == [pll_id |-> "none", div_id |-> "none", read |-> FALSE, ret |-> 0]

RateQuiet == pllrate = NoRate

\* The registers of one PLL hold (divm, divn, fracv, fracle, divp), the
\* reference is HSI (64 MHz) or HSE (24 MHz).  Only contents whose VCO
\* frequency is below 2^31 Hz are drawn.
RateInit ==
    \E id \in {"_PLL1", "_PLL3"}, refsel \in {0, 1}, divm \in RateDivm,
       divn \in RateDivn, fracv \in RateFracv, divp \in RateDivp,
       fracle \in BOOLEAN :
        /\ divn + 2 < 2147483647
              \div ((IF refsel = 0 THEN 64000000 ELSE 24000000) \div (divm + 1) + 1)
        /\ stm32mp1_osc = BoardOsc
        /\ rckselr = [p \in PllIds |-> refsel]
        /\ pll = [p \in PllIds |->
                    IF p = id
                    THEN [PllReset EXCEPT !.divm = divm, !.divn = divn,
                                          !.fracv = fracv, !.fracle = fracle,
                                          !.divp = divp, !.pllon = TRUE,
                                          !.pllrdy = TRUE, !.diven = {"_DIV_P"}]
                    ELSE PllReset]
        /\ mpckselr = [src |-> "HSI", srcrdy |-> TRUE]
        /\ mpckdivr = [mpudiv |-> 0, divrdy |-> TRUE]
        /\ pll1_settings = SettingsBss
        /\ current_opp_khz = 0
        /\ opp = OppIdle("none")
        /\ opp_calls = 0
        /\ opp_hist = NoHist
        /\ pllrate = [NoRate EXCEPT !.pll_id = id]

read_pll_freq ==
    /\ pllrate.pll_id # "none" /\ ~pllrate.read
    /\ pllrate' = [pllrate EXCEPT
                      !.div_id = "_DIV_P", !.read = TRUE,
                      !.ret = stm32mp1_read_pll_freq(stm32mp1_osc, rckselr, pll,
                                                     pllrate.pll_id, "_DIV_P")]
    /\ UNCHANGED <<gateVars, smpVars, dvfsVars, rounded, dt, boot, oc, muxsel,
                   divr, clkinit, rcc_regs, backup, pm, cas, clkrate, ckselr, parent, pllop, bdcr, oscop, stopmode, poll, pwr>>

\* ------------------------------------------------------------------------
\* get_clock_rate() for the clocks of the AXI sub-system
\* ------------------------------------------------------------------------

\* stm32mp1_axi_div[]: divider selected by the 3-bit AXIDIV field.
stm32mp1_axi_div == <<1, 2, 3, 4, 4, 4, 4, 4>>

\* #define stm32mp1_apbx_div stm32mp1_mpu_apbx_div
stm32mp1_apbx_div == stm32mp1_mpu_div

\* Fault: the APB shift applied without the AXI divider.
get_clock_rate_AXI_no_axidiv(osc, selr, plls, mux, dv, p) ==
    LET clock == CASE mux["AXI"].src = "HSI" -> stm32mp1_clk_get_fixed(osc, "_HSI")
                   [] mux["AXI"].src = "HSE" -> stm32mp1_clk_get_fixed(osc, "_HSE")
                   [] mux["AXI"].src = "PLL" ->
                        stm32mp1_read_pll_freq(osc, selr, plls, "_PLL2", "_DIV_P")
                   [] OTHER -> 0
    IN  CASE p = "_PCLK4" -> clock \div 2^(stm32mp1_apbx_div[dv["APB4"].div + 1])
          [] p = "_PCLK5" -> clock \div 2^(stm32mp1_apbx_div[dv["APB5"].div + 1])
          [] OTHER        -> clock

\* get_clock_rate(p) for p in _ACLK, _HCLK2, _HCLK6, _PCLK4, _PCLK5: the
\* source RCC_ASSCKSELR selects (0 for a value that selects none), divided
\* by the AXI divider, then shifted by the APB4 or APB5 divider.
get_clock_rate_AXI(osc, selr, plls, mux, dv, p) ==
    LET source == CASE mux["AXI"].src = "HSI" -> stm32mp1_clk_get_fixed(osc, "_HSI")
                    [] mux["AXI"].src = "HSE" -> stm32mp1_clk_get_fixed(osc, "_HSE")
                    [] mux["AXI"].src = "PLL" ->
                         stm32mp1_read_pll_freq(osc, selr, plls, "_PLL2", "_DIV_P")
                    [] OTHER -> 0
        clock  == source \div stm32mp1_axi_div[dv["AXI"].div + 1]
    IN  CASE p = "_PCLK4" -> clock \div 2^(stm32mp1_apbx_div[dv["APB4"].div + 1])
          [] p = "_PCLK5" -> clock \div 2^(stm32mp1_apbx_div[dv["APB5"].div + 1])
          [] OTHER        -> clock

AxiClocks == {"_ACLK", "_HCLK2", "_HCLK6", "_PCLK4", "_PCLK5"}

\* Values of the AXISSRC field: three sources and one that selects none.
AxiSources == {"HSI", "HSE", "PLL", "OFF"}

\* Values of a 3-bit divider field.
DivFields == 0..7

\* Output dividers PLL2 runs with.
AxiPllDivp == {1, 2}

NoClkRate == [p |-> "none", read |-> FALSE, ret |-> 0]

\* PLL2 runs from HSE with M = 2, N = 65, frac = 4096 (VCO / 2 = 532 MHz);
\* the source selector and the three divider fields hold any value.
ClkRateInit ==
    \E src \in AxiSources, axidiv \in DivFields, apb4div \in DivFields,
       apb5div \in DivFields, divp \in AxiPllDivp :
        /\ stm32mp1_osc = BoardOsc
        /\ rckselr = [p \in PllIds |-> 1]
        /\ pll = [p \in PllIds |->
                    IF p = "_PLL2"
                    THEN [PllReset EXCEPT !.divm = 2, !.divn = 65,
                                          !.fracv = 4096, !.fracle = TRUE,
                                          !.divp = divp, !.pllon = TRUE,
                                          !.pllrdy = TRUE, !.diven = {"_DIV_P"}]
                    ELSE PllReset]
        /\ mpckselr = [src |-> "HSI", srcrdy |-> TRUE]
        /\ mpckdivr = [mpudiv |-> 0, divrdy |-> TRUE]
        /\ pll1_settings = SettingsBss
        /\ current_opp_khz = 0
        /\ opp = OppIdle("none")
        /\ opp_calls = 0
        /\ opp_hist = NoHist
        /\ dt = NoDt
        /\ boot = "cold"
        /\ oc = [on |-> {"_HSI", "_HSE"}, rdy |-> {"_HSI", "_HSE"},
                 hsidiv |-> 0, hsidivrdy |-> TRUE]
        /\ muxsel = [NoMuxsel EXCEPT !["AXI"].src = src]
        /\ divr = [NoDivr EXCEPT !["AXI"].div = axidiv, !["APB4"].div = apb4div,
                                 !["APB5"].div = apb5div]
        /\ clkinit = ClkInitIdle
        /\ clkrate = NoClkRate

get_clock_rate ==
    /\ ~clkrate.read
    /\ \E p \in AxiClocks :
        clkrate' = [p |-> p, read |-> TRUE,
                    ret |-> get_clock_rate_AXI(stm32mp1_osc, rckselr, pll,
                                               muxsel, divr, p)]
    /\ UNCHANGED <<gateVars, smpVars, dvfsVars, rounded, dt, boot, oc, muxsel,
                   divr, clkinit, rcc_regs, backup, pm, cas, pllrate, ckselr, parent, pllop, bdcr, oscop, stopmode, poll, pwr>>

\* ------------------------------------------------------------------------
\* The PLL functions, one register access per step
\* ------------------------------------------------------------------------

\* Largest number of PLL function calls on the PLL under test in one
\* behaviour.
MaxPllCalls == 2

\* DIVM values of the configurations passed in: with a 24 MHz or 64 MHz
\* reference they put the divided reference above, inside and below the
\* window of either PLL type.
SeqDivm == {0, 1, 3, 5, 7}

SeqPllCfgs == {PllCfgQR(m, 49, 3, 5, 7) : m \in SeqDivm}

\* Fractional values passed in: the ends of the 13-bit field.
SeqFracs == {0, 2^FRACV_BITS - 1}

SeqOutputs == {{"_DIV_P"}, {"_DIV_P", "_DIV_Q", "_DIV_R"}}

PllFunctions == {"stm32mp1_pll_config", "stm32mp1_pll_start",
                 "stm32mp1_pll_output", "stm32mp1_pll_stop"}

PllOpIdle ==
    [pc |-> "idle", id |-> "_PLL1", fn |-> "none", pllcfg |-> PllCfg(0, 0, 0),
     fracv |-> 0, output |-> {}, ret |-> "none", calls |-> 0, writes |-> <<>>,
     pre |-> PllReset, since_start |-> FALSE]

SeqQuiet == pllop = PllOpIdle

\* The first access of each function.
FirstStep(fn) ==
    CASE fn = "stm32mp1_pll_config" -> "cfgr1"
      [] fn = "stm32mp1_pll_start"  -> "start"
      [] fn = "stm32mp1_pll_output" -> "poll_lock"
      [] fn = "stm32mp1_pll_stop"   -> "stop_outputs"

\* The PLL under test in reset state or running, with either value of the
\* spread-spectrum control bit; the other PLLs in reset state.
PllSeqInit ==
    /\ stm32mp1_osc = BoardOsc
    /\ \E id \in PllIds, src \in {0, 1}, running \in BOOLEAN, sscg \in BOOLEAN :
        /\ rckselr = [p \in PllIds |-> src]
        /\ pll = [p \in PllIds |->
                    IF p # id THEN PllReset
                    ELSE IF running
                    THEN [PllRunning(PllCfgQR(2, 49, 3, 5, 7), 0) EXCEPT
                             !.sscg_ctrl = sscg]
                    ELSE [PllReset EXCEPT !.sscg_ctrl = sscg]]
        /\ pllop = [PllOpIdle EXCEPT !.id = id, !.pre = pll[id]]
    /\ mpckselr = [src |-> "HSI", srcrdy |-> TRUE]
    /\ mpckdivr = [mpudiv |-> 0, divrdy |-> TRUE]
    /\ pll1_settings = NoSettings
    /\ current_opp_khz = 0
    /\ opp = OppIdle("none")
    /\ opp_calls = 0
    /\ opp_hist = NoHist

PllSeqFrame ==
    UNCHANGED <<gateVars, smpVars, stm32mp1_osc, rckselr, mpckselr, mpckdivr,
                pll1_settings, current_opp_khz, opp, opp_calls, opp_hist,
                rounded, dt, boot, oc, muxsel, divr, clkinit, rcc_regs, backup,
                pm, cas, pllrate, clkrate, ckselr, parent, bdcr, oscop, stopmode, poll, pwr>>

\* pllop after an access that goes on to pc, having written register w.
SeqGoto(pc, w) == [pllop EXCEPT !.pc = pc, !.writes = Append(@, w)]

\* pllop after the access that ends the function with ret.
SeqReturn(ret) == [pllop EXCEPT !.pc = "idle", !.ret = ret]

\* A PLL function is called on the PLL under test.
pll_seq_call ==
    /\ pllop.pc = "idle"
    /\ pllop.calls < MaxPllCalls
    /\ \E fn \in PllFunctions, pllcfg \in SeqPllCfgs, fracv \in SeqFracs,
          output \in SeqOutputs :
        /\ fn # "stm32mp1_pll_config" =>
              pllcfg = PllCfgQR(1, 49, 3, 5, 7) /\ fracv = 0
        /\ fn # "stm32mp1_pll_output" => output = {"_DIV_P"}
        /\ pllop' = [pllop EXCEPT !.pc = FirstStep(fn), !.fn = fn,
                                  !.pllcfg = pllcfg, !.fracv = fracv,
                                  !.output = output, !.ret = "none",
                                  !.calls = @ + 1, !.writes = <<>>,
                                  !.pre = pll[pllop.id]]
    /\ pll' = pll
    /\ PllSeqFrame

\* stm32mp1_pll_config(): stm32mp1_pll_compute_pllxcfgr1(), then CFGR1 is
\* written, or the error returned.
pll_config_cfgr1 ==
    /\ pllop.pc = "cfgr1"
    /\ LET v == stm32mp1_pll_compute_pllxcfgr1(stm32mp1_osc, rckselr, pllop.id,
                                               pllop.pllcfg)
       IN  IF v.ret # "0"
           THEN /\ pllop' = SeqReturn(v.ret)
                /\ pll' = pll
           ELSE /\ pllop' = SeqGoto("frac_clear", "CFGR1")
                /\ pll' = [pll EXCEPT ![pllop.id].divn = v.divn,
                                      ![pllop.id].divm = v.divm,
                                      ![pllop.id].ifrge = v.ifrge]
    /\ PllSeqFrame

\* Fault: the first write of FRACR carries FRACLE.
pll_config_frac_clear_with_fracle ==
    /\ pllop.pc = "frac_clear"
    /\ pllop' = SeqGoto("frac_value", "FRACR = 0")
    /\ pll' = [pll EXCEPT ![pllop.id].fracv = 0, ![pllop.id].fracle = TRUE]
    /\ PllSeqFrame

\* FRACR is written with 0.
pll_config_frac_clear ==
    /\ pllop.pc = "frac_clear"
    /\ pllop' = SeqGoto("frac_value", "FRACR = 0")
    /\ pll' = [pll EXCEPT ![pllop.id].fracv = 0, ![pllop.id].fracle = FALSE]
    /\ PllSeqFrame

\* FRACR is written with fracv << RCC_PLLNFRACR_FRACV_SHIFT: the bit of
\* fracv above the 13-bit field lands on FRACLE.
pll_config_frac_value ==
    /\ pllop.pc = "frac_value"
    /\ pllop' = SeqGoto("fracle", "FRACR = fracv")
    /\ pll' = [pll EXCEPT
                  ![pllop.id].fracv = pllop.fracv % 2^FRACV_BITS,
                  ![pllop.id].fracle = (pllop.fracv \div 2^FRACV_BITS) % 2 = 1]
    /\ PllSeqFrame

\* mmio_setbits_32(FRACR, RCC_PLLNFRACR_FRACLE)
pll_config_fracle ==
    /\ pllop.pc = "fracle"
    /\ pllop' = SeqGoto("cfgr2", "FRACR |= FRACLE")
    /\ pll' = [pll EXCEPT ![pllop.id].fracle = TRUE]
    /\ PllSeqFrame

\* stm32mp1_pll_config_output(), return 0.
pll_config_cfgr2 ==
    /\ pllop.pc = "cfgr2"
    /\ pllop' = [SeqGoto("idle", "CFGR2") EXCEPT !.ret = "0"]
    /\ pll' = [pll EXCEPT ![pllop.id] = stm32mp1_pll_config_output(@, pllop.pllcfg)]
    /\ PllSeqFrame

\* stm32mp1_pll_start(): one read-modify-write of PLLxCR.
pll_seq_start ==
    /\ pllop.pc = "start"
    /\ pllop' = [SeqGoto("idle", "CR") EXCEPT !.ret = "void", !.since_start = TRUE]
    /\ pll' = [pll EXCEPT ![pllop.id] = stm32mp1_pll_start(@)]
    /\ PllSeqFrame

\* What the polls of PLLRDY can end with: a PLL that is off does not lock,
\* one whose PLLRDY reads 1 is seen locked at once.
LockOutcomes(p) ==
    IF p.pllrdy THEN {TRUE} ELSE IF ~p.pllon THEN {FALSE} ELSE BOOLEAN

\* Fault: the outputs are enabled whatever the poll ended with.
pll_output_poll_no_wait ==
    /\ pllop.pc = "poll_lock"
    /\ \E locked \in LockOutcomes(pll[pllop.id]) :
        /\ pll' = [pll EXCEPT ![pllop.id].pllrdy = locked]
        /\ pllop' = [pllop EXCEPT !.pc = "set_outputs"]
    /\ PllSeqFrame

\* stm32mp1_pll_output(): PLLRDY is polled until it reads 1 or
\* PLLRDY_TIMEOUT has elapsed.
pll_output_poll ==
    /\ pllop.pc = "poll_lock"
    /\ \E locked \in LockOutcomes(pll[pllop.id]) :
        /\ pll' = [pll EXCEPT ![pllop.id].pllrdy = locked]
        /\ pllop' = IF locked THEN [pllop EXCEPT !.pc = "set_outputs"]
                    ELSE SeqReturn("-ETIMEDOUT")
    /\ PllSeqFrame

\* mmio_setbits_32(pllxcr, output << RCC_PLLNCR_DIVEN_SHIFT), return 0.
pll_output_set ==
    /\ pllop.pc = "set_outputs"
    /\ pllop' = [SeqGoto("idle", "CR") EXCEPT !.ret = "0", !.since_start = FALSE]
    /\ pll' = [pll EXCEPT ![pllop.id].diven = @ \cup pllop.output]
    /\ PllSeqFrame

\* Fault: the output enables are left as they are.
pll_stop_outputs_skipped ==
    /\ pllop.pc = "stop_outputs"
    /\ pllop' = [SeqGoto("stop_pllon", "CR") EXCEPT !.since_start = FALSE]
    /\ pll' = pll
    /\ PllSeqFrame

\* stm32mp1_pll_stop(): the output enables are cleared.
pll_stop_outputs ==
    /\ pllop.pc = "stop_outputs"
    /\ pllop' = [SeqGoto("stop_pllon", "CR") EXCEPT !.since_start = FALSE]
    /\ pll' = [pll EXCEPT ![pllop.id].diven = {}]
    /\ PllSeqFrame

\* PLLON is cleared.
pll_stop_pllon ==
    /\ pllop.pc = "stop_pllon"
    /\ pllop' = SeqGoto("stop_poll", "CR")
    /\ pll' = [pll EXCEPT ![pllop.id].pllon = FALSE]
    /\ PllSeqFrame

\* PLLRDY is polled until it reads 0 or PLLRDY_TIMEOUT has elapsed.
pll_stop_poll ==
    /\ pllop.pc = "stop_poll"
    /\ \E stopped \in (IF pll[pllop.id].pllrdy THEN BOOLEAN ELSE {TRUE}) :
        /\ pll' = [pll EXCEPT ![pllop.id].pllrdy = ~stopped]
        /\ pllop' = SeqReturn(IF stopped THEN "0" ELSE "-ETIMEDOUT")
    /\ PllSeqFrame

\* ------------------------------------------------------------------------
\* stm32mp1_hsidiv() and stm32mp1_lse_enable(), one register access per step
\* ------------------------------------------------------------------------

\* Largest number of calls of the two functions in one behaviour.
MaxOscCalls == 2

\* clk-hsi frequencies passed in: 64 MHz divided by 1, 2, 4, 8, and
\* frequencies that are no such quotient.
HsiFreqs == {64000000, 32000000, 16000000, 8000000, 4000000, 48000000}

\* st,drive values: LSEDRV_LOWEST 0 to LSEDRV_HIGHEST 3.
LseDrives == 0..3

OscFunctions == {"stm32mp1_hsidiv", "stm32mp1_lse_enable"}

OscOpIdle ==
    [pc |-> "idle", fn |-> "none", hsifreq |-> 0, bypass |-> FALSE,
     digbyp |-> FALSE, lsedrv |-> 0, value |-> 0, ret |-> "none", calls |-> 0,
     writes |-> <<>>, drv |-> <<>>, pre |-> [hsidiv |-> 0, lsedrv |-> 0]]

\* RCC_BDCR after a reset of the backup domain.
BdcrReset == [digbyp |-> FALSE, lsebyp |-> FALSE, lsedrv |-> 0, lseon |-> FALSE]

OscQuiet == bdcr = BdcrReset /\ oscop = OscOpIdle

\* RCC_HSICFGR and RCC_BDCR as a previous run left them: any HSIDIV, any
\* LSEDRV, the LSE off or on.
OscSeqInit ==
    /\ \E h \in 0..3 : oc = [HsiOnly EXCEPT !.hsidiv = h]
    /\ \E d \in LseDrives, on \in BOOLEAN :
          bdcr = [BdcrReset EXCEPT !.lsedrv = d, !.lseon = on]
    /\ oscop = OscOpIdle

OscSeqFrame ==
    UNCHANGED <<gateVars, smpVars, dvfsVars, rounded, dt, boot, muxsel, divr,
                clkinit, rcc_regs, backup, pm, cas, pllrate, clkrate, ckselr,
                parent, pllop, stopmode, poll, pwr>>

\* oscop after an access that goes on to pc, having written register w.
OscGoto(pc, w) == [oscop EXCEPT !.pc = pc, !.writes = Append(@, w)]

\* oscop after a step that goes on to pc without a write.
OscSkip(pc) == [oscop EXCEPT !.pc = pc]

\* oscop after the step that ends the function with ret.
OscReturn(ret) == [oscop EXCEPT !.pc = "idle", !.ret = ret]

\* One of the two functions is called.
osc_seq_call ==
    /\ oscop.pc = "idle"
    /\ oscop.calls < MaxOscCalls
    /\ \/ \E f \in HsiFreqs :
            oscop' = [oscop EXCEPT !.pc = "hsidiv", !.fn = "stm32mp1_hsidiv",
                                   !.hsifreq = f, !.ret = "none",
                                   !.calls = @ + 1, !.writes = <<>>, !.drv = <<>>,
                                   !.pre = [hsidiv |-> oc.hsidiv,
                                            lsedrv |-> bdcr.lsedrv]]
       \/ \E bypass \in BOOLEAN, digbyp \in BOOLEAN, lsedrv \in LseDrives :
            oscop' = [oscop EXCEPT !.pc = "lse_digbyp",
                                   !.fn = "stm32mp1_lse_enable",
                                   !.bypass = bypass, !.digbyp = digbyp,
                                   !.lsedrv = lsedrv, !.ret = "none",
                                   !.calls = @ + 1, !.writes = <<>>, !.drv = <<>>,
                                   !.pre = [hsidiv |-> oc.hsidiv,
                                            lsedrv |-> bdcr.lsedrv]]
    /\ UNCHANGED <<oc, bdcr>>
    /\ OscSeqFrame

\* stm32mp1_hsidiv(): the divider is searched; -1 when there is none,
\* stm32mp1_set_hsidiv() when it is not 0, else return 0.
hsidiv_search ==
    /\ oscop.pc = "hsidiv"
    /\ LET hsidiv == stm32mp1_hsidiv(oscop.hsifreq, 0, MAX_HSI_HZ) IN
       oscop' = IF hsidiv = 4 THEN OscReturn("-1")
                ELSE IF hsidiv # 0
                THEN [OscSkip("set_hsidiv") EXCEPT !.value = hsidiv]
                ELSE OscReturn("0")
    /\ UNCHANGED <<oc, bdcr>>
    /\ OscSeqFrame

\* stm32mp1_set_hsidiv(): the HSIDIV field of RCC_HSICFGR is written.
set_hsidiv_write ==
    /\ oscop.pc = "set_hsidiv"
    /\ oc' = [oc EXCEPT !.hsidiv = oscop.value % 4]
    /\ oscop' = OscGoto("hsidiv_poll", "HSICFGR")
    /\ bdcr' = bdcr
    /\ OscSeqFrame

\* stm32mp1_set_hsidiv(): HSIDIVRDY is polled until it reads 1 or
\* HSIDIV_TIMEOUT has elapsed.
set_hsidiv_poll ==
    /\ oscop.pc = "hsidiv_poll"
    /\ \E ready \in BOOLEAN :
        /\ oc' = [oc EXCEPT !.hsidivrdy = ready]
        /\ oscop' = OscReturn(IF ready THEN "0" ELSE "-ETIMEDOUT")
    /\ bdcr' = bdcr
    /\ OscSeqFrame

\* stm32mp1_lse_enable(): DIGBYP is set when digbyp.
lse_enable_digbyp ==
    /\ oscop.pc = "lse_digbyp"
    /\ IF oscop.digbyp
       THEN /\ bdcr' = [bdcr EXCEPT !.digbyp = TRUE]
            /\ oscop' = OscGoto("lse_bypass", "DIGBYP")
       ELSE /\ bdcr' = bdcr
            /\ oscop' = OscSkip("lse_bypass")
    /\ oc' = oc
    /\ OscSeqFrame

\* LSEBYP is set when bypass or digbyp.
lse_enable_bypass ==
    /\ oscop.pc = "lse_bypass"
    /\ IF oscop.bypass \/ oscop.digbyp
       THEN /\ bdcr' = [bdcr EXCEPT !.lsebyp = TRUE]
            /\ oscop' = OscGoto("lse_read", "LSEBYP")
       ELSE /\ bdcr' = bdcr
            /\ oscop' = OscSkip("lse_read")
    /\ oc' = oc
    /\ OscSeqFrame

\* The LSEDRV field is read.
lse_enable_read ==
    /\ oscop.pc = "lse_read"
    /\ oscop' = [OscSkip("lse_drive") EXCEPT !.value = bdcr.lsedrv]
    /\ UNCHANGED <<oc, bdcr>>
    /\ OscSeqFrame

\* Fault: the field is written with the target at once.
lse_enable_drive_direct ==
    /\ oscop.pc = "lse_drive"
    /\ IF oscop.value # oscop.lsedrv
       THEN /\ bdcr' = [bdcr EXCEPT !.lsedrv = oscop.lsedrv % 4]
            /\ oscop' = [OscGoto("lse_drive", "LSEDRV") EXCEPT
                            !.value = oscop.lsedrv, !.drv = Append(@, oscop.lsedrv % 4)]
       ELSE /\ bdcr' = bdcr
            /\ oscop' = OscSkip("lse_on")
    /\ oc' = oc
    /\ OscSeqFrame

\* One pass of the loop: while value differs from lsedrv it moves by one
\* towards it and the LSEDRV field is written with it.
lse_enable_drive ==
    /\ oscop.pc = "lse_drive"
    /\ IF oscop.value # oscop.lsedrv
       THEN LET value == IF oscop.value > oscop.lsedrv THEN oscop.value - 1
                         ELSE oscop.value + 1
            IN  /\ bdcr' = [bdcr EXCEPT !.lsedrv = value % 4]
                /\ oscop' = [OscGoto("lse_drive", "LSEDRV") EXCEPT
                                !.value = value, !.drv = Append(@, value % 4)]
       ELSE /\ bdcr' = bdcr
            /\ oscop' = OscSkip("lse_on")
    /\ oc' = oc
    /\ OscSeqFrame

\* stm32mp1_ls_osc_set(true, RCC_BDCR, RCC_BDCR_LSEON)
lse_enable_on ==
    /\ oscop.pc = "lse_on"
    /\ bdcr' = [bdcr EXCEPT !.lseon = TRUE]
    /\ oscop' = [OscGoto("idle", "LSEON") EXCEPT !.ret = "void"]
    /\ oc' = oc
    /\ OscSeqFrame
\* ------------------------------------------------------------------------
\* stm32mp1_clock_stopmode_save() and stm32mp1_clock_stopmode_resume(),
\* one register access per step
\* ------------------------------------------------------------------------

\* Largest number of stop-mode cycles in one behaviour.
MaxStopCycles == 1

StopPlls == {"_PLL3", "_PLL4"}

\* The fields of an RCC_PLLxCR value the two functions use.
PllCr(p) == [pllon |-> p.pllon, diven |-> p.diven]

NoCr == [pllon |-> FALSE, diven |-> {}]

StopIdle ==
    [pc |-> "run", pll3cr |-> NoCr, pll4cr |-> NoCr, mssckselr |-> "HSI",
     mcudivr |-> 0, ret |-> "none", cycles |-> 0, log |-> <<>>,
     pre |-> [src |-> "HSI", div |-> 0, pll |-> <<>>], failed |-> "none"]

StopQuiet == stopmode = StopIdle

\* PLL3 and PLL4 stopped or running with some of their outputs enabled, the
\* MCU on the HSI or on PLL3, MCUDIV at 0 or 1, the kernel clocks of the
\* oscillators off.
StopInit ==
    /\ stm32mp1_osc = BoardOsc
    /\ rckselr = [p \in PllIds |-> 1]
    /\ \E on3 \in BOOLEAN, on4 \in BOOLEAN,
          out \in {{"_DIV_P"}, {"_DIV_P", "_DIV_Q", "_DIV_R"}} :
          pll = [p \in PllIds |->
                   IF (p = "_PLL3" /\ on3) \/ (p = "_PLL4" /\ on4)
                   THEN [PllRunning(PllCfgQR(2, 49, 3, 5, 7), 0) EXCEPT
                            !.diven = out]
                   ELSE PllReset]
    /\ mpckselr = [src |-> 0, srcrdy |-> TRUE]
    /\ mpckdivr = [mpudiv |-> 0, divrdy |-> TRUE]
    /\ pll1_settings = NoSettings
    /\ current_opp_khz = 64000
    /\ opp = OppIdle("none")
    /\ opp_calls = 0
    /\ opp_hist = NoHist
    /\ dt = NoDt /\ boot = "cold" /\ clkinit = ClkInitIdle
    /\ oc = HsiOnly
    /\ \E src \in {"HSI", "PLL3P"} :
          muxsel = [NoMuxsel EXCEPT !["MCU"].src = src]
    /\ \E d \in {0, 1} : divr = [NoDivr EXCEPT !["MCU"].div = d]
    /\ stopmode = StopIdle

StopFrame ==
    UNCHANGED <<gateVars, smpVars, stm32mp1_osc, rckselr, mpckselr, mpckdivr,
                pll1_settings, current_opp_khz, opp, opp_calls, opp_hist,
                rounded, dt, boot, clkinit, rcc_regs, backup, pm, cas, pllrate,
                clkrate, ckselr, parent, pllop, bdcr, oscop, poll, pwr>>

\* enable_kernel_clocks(): RCC_OCENSETR is read, shifted left by one and
\* written back under ker_mask: the kernel clock of each of HSI, CSI, HSE
\* that is on is switched on.
enable_kernel_clocks(on) ==
    on \cup {k \in ker_mask :
               \/ k = "HSIKERON" /\ "_HSI" \in on
               \/ k = "CSIKERON" /\ "_CSI" \in on
               \/ k = "HSEKERON" /\ "_HSE" \in on}

pll_was_running(cr) == cr.pllon

pll_is_running(p) == p.pllon

\* stopmode after a step that goes on to pc, having written the registers w.
StopGoto(pc, w) == [stopmode EXCEPT !.pc = pc, !.log = @ \o w]

\* stopmode after the step that ends stm32mp1_clock_stopmode_resume().
StopReturn(ret, cause, w) ==
    [stopmode EXCEPT !.pc = "resumed", !.ret = ret, !.failed = cause,
                     !.log = @ \o w]

\* stm32mp1_clock_stopmode_save()
stm32mp1_clock_stopmode_save ==
    /\ stopmode.pc \in {"run", "resumed"}
    /\ stopmode.cycles < MaxStopCycles
    /\ stopmode' = [stopmode EXCEPT
                       !.pc = "saved",
                       !.pll3cr = PllCr(pll["_PLL3"]),
                       !.pll4cr = PllCr(pll["_PLL4"]),
                       !.mssckselr = muxsel["MCU"].src,
                       !.mcudivr = divr["MCU"].div,
                       !.ret = "none", !.cycles = @ + 1, !.log = <<>>,
                       !.failed = "none"]
    /\ oc' = [oc EXCEPT !.on = enable_kernel_clocks(@)]
    /\ UNCHANGED <<pll, muxsel, divr>>
    /\ StopFrame

\* Stop mode: the hardware may stop PLL3 and PLL4 and put the MCU back on
\* the HSI with MCUDIV at its reset value.
stop_mode ==
    /\ stopmode.pc = "saved"
    /\ \E off3 \in BOOLEAN, off4 \in BOOLEAN, mcu \in BOOLEAN :
        /\ pll' = [p \in PllIds |->
                     IF (p = "_PLL3" /\ off3) \/ (p = "_PLL4" /\ off4)
                     THEN [pll[p] EXCEPT !.pllon = FALSE, !.pllrdy = FALSE,
                                         !.diven = {}]
                     ELSE pll[p]]
        /\ muxsel' = IF mcu THEN [muxsel EXCEPT !["MCU"].src = "HSI"] ELSE muxsel
        /\ divr' = IF mcu THEN [divr EXCEPT !["MCU"].div = 0] ELSE divr
    /\ stopmode' = [stopmode EXCEPT
                       !.pc = "pll4_start",
                       !.pre = [src |-> muxsel'["MCU"].src,
                                div |-> divr'["MCU"].div, pll |-> pll']]
    /\ UNCHANGED oc
    /\ StopFrame

\* PLL4 is started when it was running and no longer is.
stopmode_resume_pll4_start ==
    /\ stopmode.pc = "pll4_start"
    /\ IF pll_was_running(stopmode.pll4cr) /\ ~pll_is_running(pll["_PLL4"])
       THEN /\ pll' = [pll EXCEPT !["_PLL4"] = stm32mp1_pll_start(@)]
            /\ stopmode' = StopGoto("pll3_start", << <<"_PLL4", "start">> >>)
       ELSE /\ stopmode' = StopGoto("pll3_start", <<>>)
            /\ UNCHANGED pll
    /\ UNCHANGED <<muxsel, divr, oc>>
    /\ StopFrame

\* PLL3 is started when it was running and no longer is.
stopmode_resume_pll3_start ==
    /\ stopmode.pc = "pll3_start"
    /\ IF ~pll_was_running(stopmode.pll3cr)
       THEN /\ stopmode' = StopGoto("pll4_output", <<>>)
            /\ UNCHANGED pll
       ELSE IF ~pll_is_running(pll["_PLL3"])
       THEN /\ pll' = [pll EXCEPT !["_PLL3"] = stm32mp1_pll_start(@)]
            /\ stopmode' = StopGoto("pll3_output", << <<"_PLL3", "start">> >>)
       ELSE /\ stopmode' = StopGoto("pll3_output", <<>>)
            /\ UNCHANGED pll
    /\ UNCHANGED <<muxsel, divr, oc>>
    /\ StopFrame

\* stm32mp1_pll_output(_PLL3, pll3cr >> RCC_PLLNCR_DIVEN_SHIFT); its error
\* is returned.
stopmode_resume_pll3_output ==
    /\ stopmode.pc = "pll3_output"
    /\ \E locked \in LockOutcomes(pll["_PLL3"]) :
        /\ pll' = [pll EXCEPT !["_PLL3"] =
                      stm32mp1_pll_output(@, stopmode.pll3cr.diven, locked)]
        /\ stopmode' = IF locked
                       THEN StopGoto("pll4_output", << <<"_PLL3", "output">> >>)
                       ELSE StopReturn("-ETIMEDOUT", "_PLL3", <<>>)
    /\ UNCHANGED <<muxsel, divr, oc>>
    /\ StopFrame

\* Fault: the return value of stm32mp1_pll_output(_PLL4, ) is dropped.
stopmode_resume_pll4_output_unchecked ==
    /\ stopmode.pc = "pll4_output"
    /\ IF ~pll_was_running(stopmode.pll4cr)
       THEN /\ stopmode' = StopGoto("mcu_src", <<>>)
            /\ UNCHANGED pll
       ELSE \E locked \in LockOutcomes(pll["_PLL4"]) :
              /\ pll' = [pll EXCEPT !["_PLL4"] =
                            stm32mp1_pll_output(@, stopmode.pll4cr.diven, locked)]
              /\ stopmode' = IF locked
                             THEN StopGoto("mcu_src", << <<"_PLL4", "output">> >>)
                             ELSE StopGoto("mcu_src", <<>>)
    /\ UNCHANGED <<muxsel, divr, oc>>
    /\ StopFrame

\* stm32mp1_pll_output(_PLL4, pll4cr >> RCC_PLLNCR_DIVEN_SHIFT) when PLL4
\* was running; its error is returned.
stopmode_resume_pll4_output ==
    /\ stopmode.pc = "pll4_output"
    /\ IF ~pll_was_running(stopmode.pll4cr)
       THEN /\ stopmode' = StopGoto("mcu_src", <<>>)
            /\ UNCHANGED pll
       ELSE \E locked \in LockOutcomes(pll["_PLL4"]) :
              /\ pll' = [pll EXCEPT !["_PLL4"] =
                            stm32mp1_pll_output(@, stopmode.pll4cr.diven, locked)]
              /\ stopmode' = IF locked
                             THEN StopGoto("mcu_src", << <<"_PLL4", "output">> >>)
                             ELSE StopReturn("-ETIMEDOUT", "_PLL4", <<>>)
    /\ UNCHANGED <<muxsel, divr, oc>>
    /\ StopFrame

\* RCC_MSSCKSELR is written with the saved value; the source-ready bit is
\* the hardware's and is not polled.
stopmode_resume_mcu_src ==
    /\ stopmode.pc = "mcu_src"
    /\ \E rdy \in BOOLEAN :
          muxsel' = [muxsel EXCEPT !["MCU"] =
                        [src |-> stopmode.mssckselr, srcrdy |-> rdy]]
    /\ stopmode' = StopGoto("mcudiv", << <<"RCC_MSSCKSELR", "write">> >>)
    /\ UNCHANGED <<pll, divr, oc>>
    /\ StopFrame

\* stm32mp1_set_clkdiv(mcudivr, RCC_MCUDIVR): the divider is written, then
\* DIVRDY is polled; its error is returned.
stopmode_resume_mcudiv ==
    /\ stopmode.pc = "mcudiv"
    /\ \E ready \in BOOLEAN :
        /\ divr' = [divr EXCEPT !["MCU"] =
                       [div |-> stopmode.mcudivr, divrdy |-> ready]]
        /\ stopmode' = IF ready
                       THEN StopGoto("disable_kernel_clocks",
                                     << <<"RCC_MCUDIVR", "write">> >>)
                       ELSE StopReturn("-ETIMEDOUT", "RCC_MCUDIVR",
                                       << <<"RCC_MCUDIVR", "write">> >>)
    /\ UNCHANGED <<pll, muxsel, oc>>
    /\ StopFrame

\* disable_kernel_clocks(), return 0
stopmode_resume_ker ==
    /\ stopmode.pc = "disable_kernel_clocks"
    /\ oc' = [oc EXCEPT !.on = @ \ ker_mask]
    /\ stopmode' = StopReturn("0", "none", << <<"RCC_OCENCLRR", "write">> >>)
    /\ UNCHANGED <<pll, muxsel, divr>>
    /\ StopFrame

\* ------------------------------------------------------------------------
\* The readiness polling loops, one register or timer read per step
\* ------------------------------------------------------------------------

\* Largest number of driver operations in one behaviour.
MaxPollOps == 2

\* The budgets in timer ticks of 200 ms.
TIMEOUT_US_200MS == 1
TIMEOUT_US_1S == 5

PLLRDY_TIMEOUT == TIMEOUT_US_200MS
CLKSRC_TIMEOUT == TIMEOUT_US_200MS
CLKDIV_TIMEOUT == TIMEOUT_US_200MS
HSIDIV_TIMEOUT == TIMEOUT_US_200MS
OSCRDY_TIMEOUT == TIMEOUT_US_1S

\* The six polling loops: the value the awaited bit is polled for and the
\* budget passed to timeout_init_us(). stm32mp1_osc_wait() polls for 1
\* when enable is true, for 0 when it is false.
PollLoops ==
    [stm32mp1_osc_wait_on  |-> [expect |-> TRUE,  budget |-> OSCRDY_TIMEOUT],
     stm32mp1_osc_wait_off |-> [expect |-> FALSE, budget |-> OSCRDY_TIMEOUT],
     stm32mp1_set_hsidiv   |-> [expect |-> TRUE,  budget |-> HSIDIV_TIMEOUT],
     stm32mp1_pll_output   |-> [expect |-> TRUE,  budget |-> PLLRDY_TIMEOUT],
     stm32mp1_pll_stop     |-> [expect |-> FALSE, budget |-> PLLRDY_TIMEOUT],
     stm32mp1_set_clksrc   |-> [expect |-> TRUE,  budget |-> CLKSRC_TIMEOUT],
     stm32mp1_set_clkdiv   |-> [expect |-> TRUE,  budget |-> CLKDIV_TIMEOUT]]

\* A call site of a loop: the loop, and whether the caller returns the
\* loop's error (the oscillator waits only log it).
Site(fn, fatal) == [fn |-> fn, fatal |-> fatal]

Times(n, s) == [k \in 1..n |-> s]

\* The loops of stm32mp1_clk_init() in program order, for a device tree
\* that has every oscillator and every PLL: LSI, HSE, CSI, the three
\* switches to the HSI, the four PLL stops, HSIDIV, the seven bus dividers,
\* the three PLL reference sources, the four PLL outputs, the LSE, the
\* three final sources, the HSI switched off.
ClkInitLoops ==
    Times(3, Site("stm32mp1_osc_wait_on", FALSE))
    \o Times(3, Site("stm32mp1_set_clksrc", TRUE))
    \o Times(4, Site("stm32mp1_pll_stop", TRUE))
    \o << Site("stm32mp1_set_hsidiv", TRUE) >>
    \o Times(7, Site("stm32mp1_set_clkdiv", TRUE))
    \o Times(3, Site("stm32mp1_set_clksrc", TRUE))
    \o Times(4, Site("stm32mp1_pll_output", TRUE))
    \o << Site("stm32mp1_osc_wait_on", FALSE) >>
    \o Times(3, Site("stm32mp1_set_clksrc", TRUE))
    \o << Site("stm32mp1_osc_wait_off", FALSE) >>

\* The loops of one stm32mp1_pll1_config_from_opp_khz() call: none (the
\* fractional part is changed on the fly), the source alone, the divider
\* and the source, or the switch to the HSI, the PLL1 stop, the PLL1 output
\* and the switch back.
OppLoops ==
    { <<>>,
      << Site("stm32mp1_set_clksrc", TRUE) >>,
      << Site("stm32mp1_set_clkdiv", TRUE), Site("stm32mp1_set_clksrc", TRUE) >>,
      << Site("stm32mp1_set_clksrc", TRUE), Site("stm32mp1_pll_stop", TRUE),
         Site("stm32mp1_pll_output", TRUE), Site("stm32mp1_set_clksrc", TRUE) >> }

\* The loops of stm32mp1_clock_stopmode_resume(): the output of PLL3 and of
\* PLL4, each when the PLL was running, then MCUDIV.
StopLoops ==
    { << Site("stm32mp1_set_clkdiv", TRUE) >>,
      << Site("stm32mp1_pll_output", TRUE), Site("stm32mp1_set_clkdiv", TRUE) >>,
      << Site("stm32mp1_pll_output", TRUE), Site("stm32mp1_pll_output", TRUE),
         Site("stm32mp1_set_clkdiv", TRUE) >> }

PollOps ==
    {"stm32mp1_clk_init", "stm32mp1_set_opp_khz", "stm32mp1_clock_stopmode_resume"}

LoopsOf(op) ==
    CASE op = "stm32mp1_clk_init" -> {ClkInitLoops}
      [] op = "stm32mp1_set_opp_khz" -> OppLoops
      [] op = "stm32mp1_clock_stopmode_resume" -> StopLoops

\* pc: "idle", "call" (the operation runs up to its next loop),
\* "timeout_init", "read", "elapsed", "loop_done", "halted".
PollIdle ==
    [pc |-> "idle", op |-> "none", attempt |-> 0, left |-> <<>>,
     site |-> Site("none", FALSE), bit |-> FALSE, seen |-> FALSE, now |-> 0,
     expire |-> 0, ret |-> "none", opret |-> "none", ops |-> 0,
     reached |-> FALSE, reads |-> 0]

PollQuiet == poll = PollIdle

PollFrame ==
    UNCHANGED <<gateVars, smpVars, dvfsVars, rounded, dt, boot, oc, muxsel, divr,
                clkinit, rcc_regs, backup, pm, cas, pllrate, clkrate, ckselr,
                parent, pllop, bdcr, oscop, stopmode, pwr>>

Polling == poll.pc \in {"read", "elapsed"}

\* A driver operation is called.
poll_op_call ==
    /\ poll.pc = "idle"
    /\ poll.ops < MaxPollOps
    /\ \E op \in PollOps : \E path \in LoopsOf(op) :
          poll' = [PollIdle EXCEPT !.pc = "call", !.op = op, !.attempt = 1,
                                   !.left = path, !.ops = poll.ops + 1]
    /\ PollFrame

\* The operation reaches its next loop, or its end: return 0, or -EIO from
\* stm32mp1_set_opp_khz() when the first attempt failed and the restore
\* succeeded.
poll_op_step ==
    /\ poll.pc = "call"
    /\ poll' = IF poll.left = <<>>
               THEN [poll EXCEPT !.pc = "idle",
                                 !.opret = IF poll.attempt = 2 THEN "-EIO" ELSE "0"]
               ELSE [poll EXCEPT !.pc = "timeout_init", !.site = Head(poll.left),
                                 !.left = Tail(poll.left)]
    /\ PollFrame

\* timeout = timeout_init_us(budget): the deadline is the timer plus the
\* budget; the timer is counted from this read. The awaited bit holds
\* either value.
poll_timeout_init ==
    /\ poll.pc = "timeout_init"
    /\ \E b \in BOOLEAN :
          poll' = [poll EXCEPT !.pc = "read", !.now = 0,
                               !.expire = PollLoops[poll.site.fn].budget,
                               !.bit = b, !.ret = "none", !.reads = 0,
                               !.reached = (b = PollLoops[poll.site.fn].expect)]
    /\ PollFrame

\* The loop condition: the register is read; the loop ends with 0 when the
\* bit has the awaited value.
poll_read ==
    /\ poll.pc = "read"
    /\ poll' = IF poll.bit = PollLoops[poll.site.fn].expect
               THEN [poll EXCEPT !.pc = "loop_done", !.seen = poll.bit,
                                 !.ret = "0", !.reads = 1]
               ELSE [poll EXCEPT !.pc = "elapsed", !.seen = poll.bit,
                                 !.reads = 1]
    /\ PollFrame

\* Fault: the loop body does not look at the timer.
poll_timeout_elapsed_never ==
    /\ poll.pc = "elapsed"
    /\ poll' = [poll EXCEPT !.pc = "read"]
    /\ PollFrame

\* The loop body: timeout_elapsed(timeout) is true when the timer is past
\* the deadline, and the loop ends with -ETIMEDOUT.
poll_timeout_elapsed ==
    /\ poll.pc = "elapsed"
    /\ poll' = IF poll.now > poll.expire
               THEN [poll EXCEPT !.pc = "loop_done", !.ret = "-ETIMEDOUT"]
               ELSE [poll EXCEPT !.pc = "read"]
    /\ PollFrame

\* The caller of the loop: it goes on after 0 and after an error it only
\* logs; else stm32mp1_clk_init() and stm32mp1_clock_stopmode_resume()
\* return the error, stm32mp1_set_opp_khz() restores the current operating
\* point and calls panic() when that fails too.
poll_caller ==
    /\ poll.pc = "loop_done"
    /\ \/ /\ poll.ret = "0" \/ ~poll.site.fatal
          /\ poll' = [poll EXCEPT !.pc = "call"]
       \/ /\ poll.ret # "0" /\ poll.site.fatal
          /\ poll.op # "stm32mp1_set_opp_khz"
          /\ poll' = [poll EXCEPT !.pc = "idle", !.opret = poll.ret]
       \/ /\ poll.ret # "0" /\ poll.site.fatal
          /\ poll.op = "stm32mp1_set_opp_khz" /\ poll.attempt = 1
          /\ \E path \in OppLoops :
                poll' = [poll EXCEPT !.pc = "call", !.attempt = 2, !.left = path]
       \/ /\ poll.ret # "0" /\ poll.site.fatal
          /\ poll.op = "stm32mp1_set_opp_khz" /\ poll.attempt = 2
          /\ poll' = [poll EXCEPT !.pc = "halted", !.opret = "panic"]
    /\ PollFrame

\* The timer counts while the loop runs; past the deadline its value no
\* longer matters.
poll_tick ==
    /\ Polling
    /\ poll.now <= poll.expire
    /\ poll' = [poll EXCEPT !.now = @ + 1]
    /\ PollFrame

\* The hardware changes the awaited bit.
poll_hw_bit ==
    /\ Polling
    /\ poll' = [poll EXCEPT !.bit = ~@,
                            !.reached = @ \/ (~poll.bit = PollLoops[poll.site.fn].expect)]
    /\ PollFrame

\* ------------------------------------------------------------------------
\* stm32_pwr_domain_on(), one access per step
\* ------------------------------------------------------------------------

\* Largest number of stm32_pwr_domain_on() calls in one behaviour.
MaxPwrCalls == 1

\* mpidr values: the calling CPU (core 0) and the secondary CPU.
Mpidrs == {0, 1}

current_cpu_mpidr == 0

\* Values of stm32_sec_entrypoint.
EntryPoints == {"sp_min_warm_entrypoint", "other"}

PwrIdle ==
    [pc |-> "idle", single_core |-> FALSE, mpidr |-> 0,
     stm32_sec_entrypoint |-> "other", ret |-> "none",
     bkpr_core1_addr |-> "unset", bkpr_core1_magic |-> "unset",
     log |-> <<>>, pre |-> 0, calls |-> 0]

PwrQuiet == pwr = PwrIdle

\* The secure runtime image, the RTCAPB bit and the other gates as the boot
\* left them.
PwrInit ==
    /\ image = "BL32"
    /\ tid = "RTCAPB"
    /\ \E mine \in BOOLEAN, others \in BOOLEAN :
          rcc_en = BootImage(image, tid, mine, others)
    /\ GateFresh
    /\ pwr = PwrIdle

PwrFrame ==
    UNCHANGED <<image, tid, boot_en, ens, dis, forced, seen, smpVars, dvfsVars,
                rounded, dt, boot, oc, muxsel, divr, clkinit, rcc_regs, backup,
                pm, cas, pllrate, clkrate, ckselr, parent, pllop, bdcr, oscop,
                stopmode, poll>>

PwrGateFrame == UNCHANGED <<rcc_en, gate_refcounts, panicked, peak>>

\* pwr after a step that goes on to pc, having made the access w.
PwrGoto(pc, w) == [pwr EXCEPT !.pc = pc, !.log = Append(@, w)]

PwrSkip(pc) == [pwr EXCEPT !.pc = pc]

PwrReturn(ret) == [pwr EXCEPT !.pc = "returned", !.ret = ret]

\* stm32_pwr_domain_on(mpidr) is called.
pwr_domain_on_call ==
    /\ pwr.pc \in {"idle", "returned"}
    /\ panicked = "none"
    /\ pwr.calls < MaxPwrCalls
    /\ \E single \in BOOLEAN, mpidr \in Mpidrs, entry \in EntryPoints :
          pwr' = [PwrIdle EXCEPT !.pc = "single_core", !.single_core = single,
                                 !.mpidr = mpidr, !.stm32_sec_entrypoint = entry,
                                 !.pre = TidCount, !.calls = pwr.calls + 1]
    /\ PwrGateFrame
    /\ PwrFrame

\* if (stm32mp_is_single_core()) return PSCI_E_INTERN_FAIL;
\* if (mpidr == current_cpu_mpidr) return PSCI_E_INVALID_PARAMS;
pwr_domain_on_checks ==
    /\ pwr.pc = "single_core"
    /\ pwr' = IF pwr.single_core THEN PwrReturn("PSCI_E_INTERN_FAIL")
              ELSE IF pwr.mpidr = current_cpu_mpidr
              THEN PwrReturn("PSCI_E_INVALID_PARAMS")
              ELSE PwrSkip("reset_magic")
    /\ PwrGateFrame
    /\ PwrFrame

\* The magic number register is reset and the SGI raised.
pwr_domain_on_reset_magic ==
    /\ pwr.pc = "reset_magic"
    /\ pwr' = [PwrGoto("entrypoint", "bkpr_core1_magic") EXCEPT
                  !.bkpr_core1_magic = "0"]
    /\ PwrGateFrame
    /\ PwrFrame

\* Only one valid entry point.
pwr_domain_on_entrypoint ==
    /\ pwr.pc = "entrypoint"
    /\ pwr' = IF pwr.stm32_sec_entrypoint # "sp_min_warm_entrypoint"
              THEN PwrReturn("PSCI_E_INVALID_ADDRESS")
              ELSE PwrSkip("clk_enable")
    /\ PwrGateFrame
    /\ PwrFrame

\* clk_enable(RTCAPB)
pwr_domain_on_clk_enable ==
    /\ pwr.pc = "clk_enable"
    /\ LET o == __stm32mp1_clk_enable(image, rcc_en, gate_refcounts, "RTCAPB", TRUE) IN
       /\ Apply(o, "stm32mp_clk_enable")
       /\ pwr' = IF o.panic = "none" THEN PwrGoto("write_addr", "clk_enable")
                 ELSE PwrSkip("halted")
    /\ PwrFrame

\* The entry point is written to its backup register.
pwr_domain_on_write_addr ==
    /\ pwr.pc = "write_addr"
    /\ pwr' = [PwrGoto("write_magic", "bkpr_core1_addr") EXCEPT
                  !.bkpr_core1_addr = pwr.stm32_sec_entrypoint]
    /\ PwrGateFrame
    /\ PwrFrame

\* The magic number is written to its backup register.
pwr_domain_on_write_magic ==
    /\ pwr.pc = "write_magic"
    /\ pwr' = [PwrGoto("clk_disable", "bkpr_core1_magic") EXCEPT
                  !.bkpr_core1_magic = "BOOT_API_A7_CORE1_MAGIC_NUMBER"]
    /\ PwrGateFrame
    /\ PwrFrame

\* Fault: the clock is left enabled.
pwr_domain_on_clk_disable_skipped ==
    /\ pwr.pc = "clk_disable"
    /\ pwr' = PwrSkip("sgi")
    /\ PwrGateFrame
    /\ PwrFrame

\* clk_disable(RTCAPB)
pwr_domain_on_clk_disable ==
    /\ pwr.pc = "clk_disable"
    /\ LET o == __stm32mp1_clk_disable(image, rcc_en, gate_refcounts, "RTCAPB", TRUE) IN
       /\ Apply(o, "stm32mp_clk_disable")
       /\ pwr' = IF o.panic = "none" THEN PwrGoto("sgi", "clk_disable")
                 ELSE PwrSkip("halted")
    /\ PwrFrame

\* The SGI to core 1 is raised; return PSCI_E_SUCCESS.
pwr_domain_on_return ==
    /\ pwr.pc = "sgi"
    /\ pwr' = PwrReturn("PSCI_E_SUCCESS")
    /\ PwrGateFrame
    /\ PwrFrame


\* ------------------------------------------------------------------------
\* Specifications
\* ------------------------------------------------------------------------

\* No rate has been asked for.
ProbeQuiet == clkrate = NoClkRate /\ ParentQuiet /\ SeqQuiet /\ OscQuiet /\ StopQuiet /\ PollQuiet /\ PwrQuiet

\* The variables of the operations a specification does not run.
AuxQuiet == rounded = NotRounded /\ InitQuiet /\ PmQuiet /\ CasQuiet /\ RateQuiet /\ ProbeQuiet

\* The gate engine with one caller.
Init == GateInit /\ SmpIdle /\ DvfsQuiet /\ AuxQuiet

Next ==
    \/ stm32mp_clk_enable
    \/ stm32mp_clk_disable
    \/ stm32mp1_clk_force_enable
    \/ stm32mp1_clk_force_disable
    \/ clk_is_enabled

Spec == Init /\ [][Next]_vars

\* The gate engine with two CPUs.
InitSMP == SmpInit /\ DvfsQuiet /\ AuxQuiet

NextSMP ==
    \E c \in CPUs :
        \/ smp_call(c)
        \/ stm32mp1_clk_lock(c)
        \/ smp_test(c)
        \/ smp_hw(c)
        \/ smp_load(c)
        \/ smp_store(c)
        \/ stm32mp1_clk_unlock(c)

SpecSMP == InitSMP /\ [][NextSMP]_vars

\* The operating-point engine.
InitOpp == GateQuiet /\ SmpIdle /\ DvfsInit /\ AuxQuiet

NextOpp ==
    \/ set_opp_entry
    \/ pll1_config_from_opp_khz_select
    \/ set_opp_set_clkdiv
    \/ set_opp_set_clksrc
    \/ set_opp_pll_stop
    \/ set_opp_pll_config
    \/ set_opp_pll_start
    \/ set_opp_pll_output
    \/ round_opp_khz

SpecOpp == InitOpp /\ [][NextOpp]_vars

\* Bring-up.
InitClk ==
    /\ GateQuiet /\ SmpIdle /\ rounded = NotRounded /\ PmQuiet /\ CasQuiet /\ RateQuiet
    /\ clkrate = NoClkRate /\ parent = NoParent /\ SeqQuiet /\ OscQuiet /\ StopQuiet /\ PollQuiet /\ PwrQuiet
    /\ \E t \in Topologies, b \in BootStates : ClkInitBoot(t, b)

NextClk ==
    \/ clk_init_entry
    \/ clk_init_osc_set
    \/ clk_init_lse_enable
    \/ clk_init_set_clksrc
    \/ clk_init_preserve
    \/ clk_init_pll_stop
    \/ clk_init_hsidiv
    \/ clk_init_write_div
    \/ clk_init_set_clkdiv
    \/ clk_init_pll_config
    \/ clk_init_pll_output
    \/ clk_init_lse_wait
    \/ clk_init_rtcsrc
    \/ clk_init_pkcs
    \/ clk_init_pkcs_ckper
    \/ clk_init_pkcs_usb
    \/ clk_init_hsi_off
    \/ clk_init_return

SpecClk == InitClk /\ [][NextClk]_vars

\* Suspend and resume around the gate engine.
InitPm ==
    /\ GateInit /\ tid \in PmClockIds
    /\ SmpIdle /\ DvfsQuiet /\ rounded = NotRounded /\ PmOscInit /\ PmInit
    /\ CasQuiet /\ RateQuiet /\ ProbeQuiet

NextPm ==
    \/ pm.phase = "run" /\ stm32mp_clk_enable
    \/ pm.phase = "run" /\ stm32mp_clk_disable
    \/ pm.phase = "run" /\ stm32mp1_clk_force_enable
    \/ pm.phase = "run" /\ stm32mp1_clk_force_disable
    \/ stm32mp1_clock_suspend
    \/ standby
    \/ clock_resume_mux
    \/ clock_resume_sc
    \/ clock_resume_regular
    \/ clock_resume_sync
    \/ clock_resume_ker

SpecPm == InitPm /\ [][NextPm]_vars

\* stm32mp1_clk_compute_all_pll1_settings() after bring-up.
InitSettings ==
    /\ GateQuiet /\ SmpIdle /\ rounded = NotRounded /\ InitQuiet /\ PmQuiet
    /\ RateQuiet /\ ProbeQuiet /\ CasInit

NextSettings ==
    \/ compute_all_entry
    \/ compute_all_loop
    \/ compute_all_return

SpecSettings == InitSettings /\ [][NextSettings]_vars

\* The rate of a PLL read from its registers.
InitPll ==
    /\ GateQuiet /\ SmpIdle /\ rounded = NotRounded /\ InitQuiet /\ PmQuiet
    /\ CasQuiet /\ RateInit /\ ProbeQuiet

NextPll == read_pll_freq

SpecPll == InitPll /\ [][NextPll]_vars

\* The rate of a clock of the AXI sub-system read from the registers.
InitRate ==
    /\ GateQuiet /\ SmpIdle /\ rounded = NotRounded /\ PmQuiet /\ CasQuiet
    /\ RateQuiet /\ ClkRateInit /\ ParentQuiet /\ SeqQuiet /\ OscQuiet /\ StopQuiet /\ PollQuiet /\ PwrQuiet

NextRate == get_clock_rate

SpecRate == InitRate /\ [][NextRate]_vars

\* stm32mp1_clk_compute_all_pll1_settings() called up to MaxCasCalls times,
\* with a device tree of any kind.
InitTable ==
    /\ GateQuiet /\ SmpIdle /\ rounded = NotRounded /\ InitQuiet /\ PmQuiet
    /\ RateQuiet /\ ProbeQuiet
    /\ \E refsel \in {0, 1}, divp \in {0, 1}, src \in {"PLL", "PLL_MPUDIV", "HSI"},
          table \in OppDt, dtret \in DtRets :
           CasBoot(refsel, divp, src, table, dtret)

NextTable ==
    \/ compute_all_entry
    \/ compute_all_loop
    \/ compute_all_return

SpecTable == InitTable /\ [][NextTable]_vars

\* The parent of a clock resolved once, in either image, with the source
\* fields at any value.
InitParent ==
    /\ image \in Images
    /\ tid = "RTCAPB"
    /\ rcc_en = BootImage(image, tid, FALSE, FALSE)
    /\ GateFresh
    /\ SmpIdle /\ DvfsQuiet /\ rounded = NotRounded /\ InitQuiet /\ PmQuiet
    /\ CasQuiet /\ RateQuiet /\ clkrate = NoClkRate /\ ParentInit /\ SeqQuiet /\ OscQuiet /\ StopQuiet /\ PollQuiet /\ PwrQuiet

NextParent == clk_get_parent

SpecParent == InitParent /\ [][NextParent]_vars

\* The PLL functions called in any order on one PLL.
InitSeq ==
    /\ GateQuiet /\ SmpIdle /\ rounded = NotRounded /\ InitQuiet /\ PmQuiet
    /\ CasQuiet /\ RateQuiet /\ clkrate = NoClkRate /\ ParentQuiet /\ PllSeqInit /\ OscQuiet /\ StopQuiet /\ PollQuiet /\ PwrQuiet

NextSeq ==
    \/ pll_seq_call
    \/ pll_config_cfgr1
    \/ pll_config_frac_clear
    \/ pll_config_frac_value
    \/ pll_config_fracle
    \/ pll_config_cfgr2
    \/ pll_seq_start
    \/ pll_output_poll
    \/ pll_output_set
    \/ pll_stop_outputs
    \/ pll_stop_pllon
    \/ pll_stop_poll

SpecSeq == InitSeq /\ [][NextSeq]_vars

\* stm32mp1_hsidiv() and stm32mp1_lse_enable() called in any order, from
\* any value of the HSIDIV and LSEDRV fields.
InitOsc ==
    /\ GateQuiet /\ SmpIdle /\ DvfsQuiet /\ rounded = NotRounded
    /\ dt = NoDt /\ boot = "cold" /\ muxsel = NoMuxsel /\ divr = NoDivr
    /\ clkinit = ClkInitIdle
    /\ PmQuiet /\ CasQuiet /\ RateQuiet /\ clkrate = NoClkRate /\ ParentQuiet
    /\ SeqQuiet /\ OscSeqInit /\ StopQuiet /\ PollQuiet /\ PwrQuiet

NextOsc ==
    \/ osc_seq_call
    \/ hsidiv_search
    \/ set_hsidiv_write
    \/ set_hsidiv_poll
    \/ lse_enable_digbyp
    \/ lse_enable_bypass
    \/ lse_enable_read
    \/ lse_enable_drive
    \/ lse_enable_on

SpecOsc == InitOsc /\ [][NextOsc]_vars

\* A stop-mode cycle: stm32mp1_clock_stopmode_save(), stop mode, then
\* stm32mp1_clock_stopmode_resume().
InitStop ==
    /\ GateQuiet /\ SmpIdle /\ rounded = NotRounded /\ PmQuiet
    /\ CasQuiet /\ RateQuiet /\ clkrate = NoClkRate /\ ParentQuiet
    /\ SeqQuiet /\ bdcr = BdcrReset /\ oscop = OscOpIdle /\ StopInit /\ PollQuiet /\ PwrQuiet

NextStop ==
    \/ stm32mp1_clock_stopmode_save
    \/ stop_mode
    \/ stopmode_resume_pll4_start
    \/ stopmode_resume_pll3_start
    \/ stopmode_resume_pll3_output
    \/ stopmode_resume_pll4_output
    \/ stopmode_resume_mcu_src
    \/ stopmode_resume_mcudiv
    \/ stopmode_resume_ker

SpecStop == InitStop /\ [][NextStop]_vars

\* The three operations that poll, each as the sequence of its polling
\* loops; the hardware sets and clears the awaited bit at any time, or
\* never.
InitPoll ==
    /\ GateQuiet /\ SmpIdle /\ DvfsQuiet /\ rounded = NotRounded /\ InitQuiet
    /\ PmQuiet /\ CasQuiet /\ RateQuiet /\ clkrate = NoClkRate /\ ParentQuiet
    /\ SeqQuiet /\ OscQuiet /\ StopQuiet /\ PollQuiet /\ PwrQuiet

NextPoll ==
    \/ poll_op_call
    \/ poll_op_step
    \/ poll_timeout_init
    \/ poll_read
    \/ poll_timeout_elapsed
    \/ poll_caller
    \/ poll_tick
    \/ poll_hw_bit

\* The calling context runs the operation without yielding and the timer
\* counts on: every step of the operation and the timer are weakly fair.
\* Nothing is assumed of the hardware bit.
FairSpecPoll ==
    /\ InitPoll /\ [][NextPoll]_vars
    /\ WF_vars(poll_op_step)
    /\ WF_vars(poll_timeout_init)
    /\ WF_vars(poll_read)
    /\ WF_vars(poll_timeout_elapsed)
    /\ WF_vars(poll_caller)
    /\ WF_vars(poll_tick)

\* stm32_pwr_domain_on() after any enables and disables of RTCAPB.
InitPwr ==
    /\ PwrInit /\ SmpIdle /\ DvfsQuiet /\ rounded = NotRounded /\ InitQuiet
    /\ PmQuiet /\ CasQuiet /\ RateQuiet /\ clkrate = NoClkRate /\ ParentQuiet
    /\ SeqQuiet /\ OscQuiet /\ StopQuiet /\ PollQuiet

NextPwr ==
    \/ pwr.pc = "idle" /\ stm32mp_clk_enable
    \/ pwr.pc = "idle" /\ stm32mp_clk_disable
    \/ pwr_domain_on_call
    \/ pwr_domain_on_checks
    \/ pwr_domain_on_reset_magic
    \/ pwr_domain_on_entrypoint
    \/ pwr_domain_on_clk_enable
    \/ pwr_domain_on_write_addr
    \/ pwr_domain_on_write_magic
    \/ pwr_domain_on_clk_disable
    \/ pwr_domain_on_return

SpecPwr == InitPwr /\ [][NextPwr]_vars

\* ------------------------------------------------------------------------
\* Properties
\* ------------------------------------------------------------------------

\* The clock under test goes through the reference count: it has a gate, is
\* not always on, and its gate is not one the image leaves uncounted.
Refcounted ==
    /\ ~clock_is_always_on(tid)
    /\ TidGate # 0
    /\ ~bypass_refcount(image, gate_ref(image, TidGate))

\* The behaviour started with the hardware bit of the gate off, and no
\* force_enable/force_disable has been made.
FromOff == ~TidBit(boot_en) /\ ~forced

NoRefcount == [i \in 1..NB_GATES(image) |-> 0]

\* C1: for a refcounted gate that starts at count 0 with its hardware bit
\* off, after any clk_enable/clk_disable sequence the count is 0 iff the
\* bit is off, and clk_is_enabled called while the count is above 0
\* returns true.
C1_count_zero_iff_off ==
    (Refcounted /\ FromOff) =>
        /\ (TidCount = 0) <=> ~TidBit(rcc_en)
        /\ (seen.valid /\ seen.cnt0 > 0) => seen.ret = "true"

C1_witness ==
    /\ Refcounted /\ FromOff
    /\ ens = 1 /\ dis = 0 /\ TidCount = 1
    /\ seen.valid /\ seen.cnt0 = 1 /\ seen.ret = "true"

\* C2: for a refcounted gate that starts at count 0 with its hardware bit
\* off, the count is the number of enables minus the number of disables
\* that returned, the bit is on exactly while the count is above 0,
\* clk_is_enabled at count 0 returns false, and a clk_disable at count 0
\* panics and leaves the count at 0.
C2_count_tracks_calls ==
    (Refcounted /\ FromOff) =>
        /\ panicked = "none" =>
              /\ TidCount = ens - dis
              /\ TidBit(rcc_en) <=> (TidCount > 0)
        /\ panicked = "stm32mp_clk_disable" => (TidCount = 0 /\ ens = dis)
        /\ (seen.valid /\ seen.cnt0 = 0) => seen.ret = "false"

C2_witness ==
    /\ Refcounted /\ FromOff
    /\ peak = 2 /\ ens = 2 /\ dis = 2
    /\ seen.valid /\ seen.cnt0 = 0 /\ seen.ret = "false" /\ ~seen.moved
    /\ panicked = "stm32mp_clk_disable" /\ TidCount = 0

\* Since the last clk_is_enabled(tid), as many clk_disable as clk_enable
\* calls have returned, none panicked, and no force call was made.
Balanced ==
    /\ seen.valid /\ seen.pure /\ seen.bal = 0
    /\ panicked = "none"

\* C3 as stated: after a balanced sequence clk_is_enabled returns what it
\* returned before it, whatever the state of the bit and of the count.
C3_balanced_any_start ==
    Balanced => stm32mp_clk_is_enabled(image, rcc_en, tid) = seen.ret

\* At the last clk_is_enabled(tid) the hardware bit agreed with the
\* accounting: on iff the count was above 0 for a refcounted gate, on for a
\* gate the image does not count.
SeenConsistent ==
    IF clock_is_always_on(tid) THEN TRUE
    ELSE IF Refcounted THEN (seen.ret = "true") <=> (seen.cnt0 > 0)
    ELSE seen.ret = "true"

\* C3: after a balanced sequence of clk_enable/clk_disable calls that
\* starts with the hardware bit agreeing with the accounting,
\* clk_is_enabled returns what it returned before the sequence.
C3_balanced_consistent_start ==
    (Balanced /\ SeenConsistent) =>
        stm32mp_clk_is_enabled(image, rcc_en, tid) = seen.ret

C3_witness ==
    /\ Balanced /\ SeenConsistent /\ Refcounted
    /\ seen.moved /\ seen.cnt0 = 1 /\ seen.ret = "true"
    /\ ens = 2 /\ dis = 1 /\ TidBit(rcc_en)

\* C4: with spin-locks available and two CPUs interleaving clk_enable and
\* clk_disable on a refcounted gate that starts at count 0 with its bit off,
\* whenever refcount_lock is free the count is the number of enables minus
\* the number of disables that have returned, and the hardware bit is on
\* iff the count is above 0.
C4_no_lost_update ==
    (/\ lock_available /\ refcount_lock = 0 /\ panicked = "none"
     /\ Refcounted /\ FromOff) =>
        /\ TidCount = ens - dis
        /\ TidBit(rcc_en) <=> (TidCount > 0)

C4_witness ==
    /\ lock_available /\ refcount_lock = 0 /\ panicked = "none"
    /\ Refcounted /\ FromOff
    /\ peak = 2 /\ ens = 2 /\ dis = 1 /\ TidCount = 1 /\ TidBit(rcc_en)
    /\ \A c \in CPUs : cpu[c].pc = "lock"

\* C5: the count never decreases except by a clk_disable that returns, and
\* it holds UINT_MAX only in a system halted by the panic of clk_enable.
C5_no_wrap ==
    [][/\ (TidCount' < TidCount) => (dis' = dis + 1)
       /\ (TidCount' = UINT_MAX) => (panicked' = "stm32mp_clk_enable")]_vars

C5_witness ==
    /\ Refcounted
    /\ TidCount = UINT_MAX
    /\ panicked = "stm32mp_clk_enable"

\* The always-on set as documented: oscillators, HSE/2, the outputs of
\* PLL1 to PLL4, CK_AXI, CK_MPU, CK_MCU and RTC.
DocumentedAlwaysOn ==
    {"CK_HSE", "CK_HSI", "CK_CSI", "CK_LSI", "CK_LSE", "CK_HSE_DIV2",
     "PLL1_P", "PLL1_Q", "PLL1_R", "PLL2_P", "PLL2_Q", "PLL2_R",
     "PLL3_P", "PLL3_Q", "PLL3_R", "PLL4_P", "PLL4_Q", "PLL4_R",
     "CK_AXI", "CK_MPU", "CK_MCU", "RTC"}

\* No call has changed a register or a refcount or halted the system, and
\* clk_is_enabled(tid) returns true.
NoOpAndEnabled ==
    /\ rcc_en = boot_en
    /\ gate_refcounts = NoRefcount
    /\ panicked = "none"
    /\ stm32mp_clk_is_enabled(image, rcc_en, tid) = "true"

C7_non_secure_uncounted ==
    (/\ image = "BL32" /\ ~clock_is_always_on(tid) /\ TidGate # 0
     /\ gate_is_non_secure(gate_ref(image, TidGate)) /\ ~forced) =>
        /\ gate_refcounts = NoRefcount
        /\ panicked = "none"
        /\ TidBit(rcc_en) = (ens > 0 \/ TidBit(boot_en))
        /\ \A off \in GateRegs :
              rcc_en[off] \ {gate_ref(image, TidGate).bit}
                 = boot_en[off] \ {gate_ref(image, TidGate).bit}

C7_witness ==
    /\ image = "BL32" /\ TidGate # 0
    /\ gate_is_non_secure(gate_ref(image, TidGate)) /\ ~forced
    /\ ~TidBit(boot_en) /\ TidBit(rcc_en)
    /\ ens = 1 /\ dis = 2

\* PLL1 runs, has been seen locked, and its P output is enabled.
Pll1Usable ==
    /\ pll["_PLL1"].pllon
    /\ pll["_PLL1"].pllrdy
    /\ "_DIV_P" \in pll["_PLL1"].diven

\* C8 as stated: while stm32mp1_set_opp_khz() runs, rollback included,
\* the MPU source field selects PLL1_P or PLL1_P/MPUDIV only while PLL1
\* runs, has been seen locked and has its P output enabled.
C8_mpu_never_on_stopped_pll1 ==
    mpckselr.src \in {"PLL", "PLL_MPUDIV"} => Pll1Usable

\* The last stm32mp1_set_opp_khz() call has returned `ret' without writing
\* a register and without changing current_opp_khz.
EarlyExit(ret) ==
    /\ opp.pc = "idle"
    /\ opp.ret = ret
    /\ OppRegs = opp_hist.regs
    /\ current_opp_khz = opp_hist.cur

\* C9: stm32mp1_set_opp_khz(f) returns 0 when f is the current OPP, else
\* -EACCES when the OPP table is invalid, else -EPERM when the MPU source
\* is neither PLL1_P nor PLL1_P/MPUDIV; in the three cases no register is
\* written and current_opp_khz is unchanged.
C9_early_exits_in_order ==
    opp_calls > 0 =>
        LET same  == opp_hist.freq_khz = opp_hist.cur
            valid == pll1_settings.valid_id = PLL1_SETTINGS_VALID_ID
            onpll == opp_hist.regs[2].src \in {"PLL", "PLL_MPUDIV"}
        IN  /\ same => EarlyExit("0")
            /\ (~same /\ ~valid) => EarlyExit("-EACCES")
            /\ (~same /\ valid /\ ~onpll) => EarlyExit("-EPERM")

C9_witness ==
    /\ opp_calls = 2
    /\ pll1_settings.valid_id # PLL1_SETTINGS_VALID_ID
    /\ mpckselr.src = "HSI"
    /\ opp_hist.freq_khz # opp_hist.cur
    /\ opp.pc = "idle" /\ opp.ret = "-EACCES"

\* The MPU clock is configured for operating point khz: sourced from a
\* usable PLL1, at a rate that rounds to khz.
MpuConfiguredFor(khz) ==
    /\ mpckselr.src \in {"PLL", "PLL_MPUDIV"}
    /\ Pll1Usable
    /\ udiv_round_nearest(
           get_clock_rate_CK_MPU(stm32mp1_osc, rckselr, pll, mpckselr, mpckdivr),
           1000) = khz

\* C10 as stated: when the first configuration attempt of
\* stm32mp1_set_opp_khz() failed, the call does not return 0, and if it
\* returns, current_opp_khz is unchanged and the MPU clock is configured
\* for that operating point again.
C10_rollback_restores ==
    (opp_hist.failed /\ opp.pc = "idle") =>
        /\ opp.ret = "-EIO"
        /\ current_opp_khz = opp_hist.cur
        /\ MpuConfiguredFor(opp_hist.cur)

\* The frequency of the last stm32mp1_set_opp_khz() call is a frequency of
\* the OPP table.
RequestInTable == OppLookup(pll1_settings, opp_hist.freq_khz) <= PLAT_MAX_OPP_NB

\* C11 as stated: stm32mp1_set_opp_khz(f) with a valid table, the MPU on
\* PLL1 and f neither the current OPP nor a frequency of the table returns
\* the invalid-argument error (-ENXIO).
C11_unknown_opp_is_invalid_argument ==
    (/\ opp_calls > 0 /\ opp.pc \in {"idle", "panic"}
     /\ opp_hist.pre = "config" /\ ~RequestInTable) =>
        /\ opp.pc = "idle"
        /\ opp.ret = "-ENXIO"

\* C12 as stated: when stm32mp1_set_opp_khz(f) has returned 0 for a
\* frequency f of the OPP table, the rate of CK_MPU divided by 1000 and
\* rounded to nearest is f.
C12_success_sets_rate ==
    (/\ opp_calls > 0 /\ opp.pc = "idle" /\ opp.ret = "0" /\ RequestInTable) =>
        udiv_round_nearest(
            get_clock_rate_CK_MPU(stm32mp1_osc, rckselr, pll, mpckselr, mpckdivr),
            1000) = opp_hist.freq_khz

\* The frequencies of the OPP table: the slots read from the device tree
\* (an unused slot holds 0).
TableFreqs == {pll1_settings.freq[i] : i \in 1..PLAT_MAX_OPP_NB} \ {0}

\* C13 as stated: with a valid table stm32mp1_round_opp_khz(f) gives the
\* largest frequency of the table that is at most f, and what it gives is a
\* frequency of the table for every f; with an invalid table it gives the
\* current operating point.
C13_round_is_table_floor ==
    rounded.ret = "0" =>
        IF clk_pll1_settings_are_valid(pll1_settings)
        THEN /\ rounded.out \in TableFreqs
             /\ rounded.out <= rounded.freq_khz
             /\ \A v \in TableFreqs : v <= rounded.freq_khz => v <= rounded.out
        ELSE rounded.out = current_opp_khz

\* C14 as stated: once a polled readiness of stm32mp1_clk_init() has timed
\* out (oscillator ready, HSIDIV ready, PLL stop, PLL lock, divider ready,
\* source ready), the function has returned an error and no later step of
\* the bring-up has run.
C14_timeout_aborts_bring_up ==
    clkinit.timeout # "none" =>
        /\ clkinit.pc = "done"
        /\ clkinit.ret # "0"
        /\ ~clkinit.later

\* stm32mp1_clk_init() has returned 0 for a topology with HSE as PLL12
\* reference, a PLL1 node and MPU source PLL1_P.
BroughtUpOnPll1 ==
    /\ clkinit.pc = "done" /\ clkinit.ret = "0"
    /\ dt.clksrc.PLL12 = 1
    /\ dt.pllcfg_valid["_PLL1"]
    /\ dt.clksrc.MPU = "PLL"

\* C15: after stm32mp1_clk_init() returns 0 for a topology with HSE as
\* PLL12 reference, a valid PLL1 configuration and MPU source PLL1_P, PLL1
\* has PLLON = 1 and PLLRDY = 1, the MPU mux selects PLL1_P with its
\* source-ready bit set, and HSION is set only if the topology declares an
\* HSI oscillator.
C15_brought_up_on_pll1 ==
    BroughtUpOnPll1 =>
        /\ pll["_PLL1"].pllon
        /\ pll["_PLL1"].pllrdy
        /\ mpckselr = [src |-> "PLL", srcrdy |-> TRUE]
        /\ ("_HSI" \in oc.on => dt.osc["_HSI"] # 0)

C15_witness ==
    /\ BroughtUpOnPll1
    /\ dt.osc["_HSI"] = 0
    /\ "_HSI" \notin oc.on
    /\ boot = "running"
    /\ pll["_PLL1"].pllon /\ pll["_PLL1"].pllrdy
    /\ "_DIV_P" \in pll["_PLL1"].diven

\* matches() as the specification words it, on the registers of PLL pll_id:
\* PLLON is set, the reference mux selects clksrc, the reference divided by
\* M + 1 is in range, and stm32mp1_pll_config() with the same parameters
\* would leave CFGR1, FRACR and CFGR2 as they are.
MatchesAsSpecified(pll_id, clksrc, pllcfg, fracv) ==
    LET after == stm32mp1_pll_config(stm32mp1_osc, rckselr, pll[pll_id], pll_id,
                                     pllcfg, fracv)
    IN  /\ pll[pll_id].pllon
        /\ rckselr[pll_id] = clksrc
        /\ after.ret = "0"
        /\ after.p = pll[pll_id]

\* C17: stm32mp1_check_pll_conf() returns true exactly when PLLON is set,
\* the reference mux equals clksrc, reference/(M+1) is in range and CFGR1,
\* FRACR and CFGR2 hold the words a configure with the same parameters
\* would write, also for a PLL that is locked and has outputs enabled.
\* Checked where stm32mp1_clk_init() calls it on PLL3 and PLL4 after an
\* MPU reset.
C17_matches_iff_configure_is_no_op ==
    [][(clkinit.pc = "preserve" /\ MpuReset(boot)) =>
          /\ clkinit'.pll3_preserve
                <=> MatchesAsSpecified("_PLL3", dt.clksrc.PLL3, dt.pllcfg["_PLL3"],
                                       dt.pllfracv["_PLL3"])
          /\ clkinit'.pll4_preserve
                <=> MatchesAsSpecified("_PLL4", dt.clksrc.PLL4, dt.pllcfg["_PLL4"],
                                       dt.pllfracv["_PLL4"])]_vars

\* ------------------------------------------------------------------------
\* Suspend and resume
\* ------------------------------------------------------------------------

Resumed == pm.phase = "resumed"

\* Every slice of backup_mux0_cfg[] and backup_mux4_cfg[] reads as it did
\* when stm32mp1_clock_suspend() was called.
SlicesKept ==
    /\ \A i \in 1..Len(backup_mux0_cfg) :
          rcc_regs[backup_mux0_cfg[i].offset] \cap MuxMask(backup_mux0_cfg[i], 0)
              = pm.pre_regs[backup_mux0_cfg[i].offset]
                    \cap MuxMask(backup_mux0_cfg[i], 0)
    /\ \A i \in 1..Len(backup_mux4_cfg) :
          rcc_regs[backup_mux4_cfg[i].offset] \cap MuxMask(backup_mux4_cfg[i], 4)
              = pm.pre_regs[backup_mux4_cfg[i].offset]
                    \cap MuxMask(backup_mux4_cfg[i], 4)

RegularKept ==
    \A i \in 1..Len(backup_clock_cfg) :
        rcc_regs[backup_clock_cfg[i]] = pm.pre_regs[backup_clock_cfg[i]]

\* The bits of a gate register that belong to gates the resume loop drives.
SyncedBits(off) ==
    {gate_ref(image, i).bit :
        i \in {j \in SyncedGates(image) : gate_ref(image, j).offset = off}}

SecureCountedGatesOn ==
    \A idx \in 1..NB_GATES(image) :
        (~gate_is_non_secure(gate_ref(image, idx)) /\ gate_refcounts[idx] > 0)
            => __clk_is_enabled(rcc_en, gate_ref(image, idx))

\* C16 as stated: after stm32mp1_clock_suspend() then
\* stm32mp1_clock_resume(), every selector slice, every set/clear gate
\* register and every regular register of the snapshot holds its
\* pre-suspend value, and every secure gate with a refcount above 0 is
\* enabled, whatever the gate bits and refcounts were.
C16_registers_keep_pre_suspend_value ==
    Resumed =>
        /\ SlicesKept
        /\ RegularKept
        /\ \A off \in ScOffsets :
              PmRead(rcc_en, rcc_regs, off) = PmRead(pm.pre_en, pm.pre_regs, off)
        /\ SecureCountedGatesOn

\* C16 amended: the selector slices and the regular registers hold their
\* pre-suspend value; a set/clear gate register holds its pre-suspend
\* value except the bits of the secure gates that are not always on, each
\* of which is set exactly when the refcount of its gate is above 0; every
\* secure gate with a refcount above 0 is enabled.
C16_registers_restored_then_synced ==
    Resumed =>
        /\ SlicesKept
        /\ RegularKept
        /\ \A off \in ScOffsets :
              IF off \in GateRegs
              THEN /\ rcc_en[off] \ SyncedBits(off)
                        = pm.pre_en[off] \ SyncedBits(off)
                   /\ \A i \in SyncedGates(image) :
                         gate_ref(image, i).offset = off =>
                            (gate_ref(image, i).bit \in rcc_en[off]
                                <=> gate_refcounts[i] > 0)
              ELSE rcc_regs[off] = pm.pre_regs[off]
        /\ SecureCountedGatesOn

\* Resumed after the registers lost their content: a register of the
\* snapshot is back to a value the low-power state had changed, and a
\* secure gate of a snapshot register that was on with refcount 0 is off.
C16_witness ==
    /\ Resumed /\ pm.lost
    /\ \E i \in SyncedGates(image) :
          /\ gate_ref(image, i).offset \in ScOffsets
          /\ gate_ref(image, i).bit \in pm.pre_en[gate_ref(image, i).offset]
          /\ gate_refcounts[i] = 0
          /\ ~__clk_is_enabled(rcc_en, gate_ref(image, i))
    /\ \E i \in SyncedGates(image) : gate_refcounts[i] > 0

\* The non-secure gates of the table.
NonSecureGates ==
    {i \in 1..NB_GATES(image) : gate_is_non_secure(gate_ref(image, i))}

\* The writes of stm32mp1_clock_resume() in program order.
ResumeOrder ==
    << <<"restore_mux_cfg", "CKSELR">> >> \o ScWrites
        \o << <<"restore_regular_cfg", "CFGR">>, <<"sync", "EN">>,
              <<"disable_kernel_clocks", "RCC_OCENCLRR">> >>

\* C36: after stm32mp1_clock_resume() every secure gate that is not always
\* on has its enable bit set exactly when its refcount is above 0, whatever
\* the bitmap recorded at suspend; every bit of a non-secure gate in a
\* recorded set/clear register holds its recorded value; the replay goes
\* selector slices, set/clear registers (set register, then clear
\* register), regular registers, refcount sync, kernel clocks of the
\* oscillators off.
C36_resume_syncs_secure_gates ==
    /\ Resumed =>
          /\ \A i \in SyncedGates(image) :
                __clk_is_enabled(rcc_en, gate_ref(image, i)) <=> gate_refcounts[i] > 0
          /\ \A i \in NonSecureGates :
                gate_ref(image, i).offset \in ScOffsets =>
                    (gate_ref(image, i).bit \in rcc_en[gate_ref(image, i).offset]
                        <=> gate_ref(image, i).bit
                                \in ScValue(backup, gate_ref(image, i).offset))
          /\ pm.log = ResumeOrder
          /\ oc.on \cap ker_mask = {}
    /\ pm.phase \in {"restore_sc", "restore_regular", "sync", "disable_kernel_clocks"} =>
          /\ Len(pm.log) < Len(ResumeOrder)
          /\ pm.log = SubSeq(ResumeOrder, 1, Len(pm.log))

\* Resumed after the registers were lost: a secure gate recorded off with
\* a refcount above 0 is on, a non-secure gate recorded off is off, the
\* kernel clocks of the oscillators are off.
C36_witness ==
    /\ Resumed /\ pm.lost
    /\ \E i \in SyncedGates(image) :
          /\ gate_ref(image, i).offset \in ScOffsets
          /\ gate_ref(image, i).bit \notin ScValue(backup, gate_ref(image, i).offset)
          /\ gate_refcounts[i] > 0
          /\ __clk_is_enabled(rcc_en, gate_ref(image, i))
    /\ \E i \in NonSecureGates :
          /\ gate_ref(image, i).offset \in ScOffsets
          /\ gate_ref(image, i).bit \notin rcc_en[gate_ref(image, i).offset]
    /\ oc.on \cap ker_mask = {}

\* ------------------------------------------------------------------------
\* PLL1 settings
\* ------------------------------------------------------------------------

\* VCO / 2 of PLL1 for a reference and (M, N, FRAC), as the search computes it.
HalfVco(input_freq, divm, divn, frac) ==
    (input_freq \div (divm + 1)) * (divn + 1)
        + MulDiv(input_freq \div (divm + 1), frac, FRAC_MAX)

\* A (divm, divp) whose divn is in range and one of whose two refinement
\* iterations has VCO / 2 in range.
SearchHasCandidate(input_freq, freq_khz) ==
    \E divm \in DIVM_MIN..DIVM_MAX, divp \in DIVP_MIN..DIVP_MAX :
        LET c == SearchDivnFrac(input_freq, freq_khz * 1000, divm, divp) IN
        /\ input_freq \div (divm + 1) \in POST_DIVM_MIN..POST_DIVM_MAX
        /\ c.divn \in DIVN_MIN..DIVN_MAX
        /\ \E frac \in {c.frac, c.frac + 1} :
              HalfVco(input_freq, divm, c.divn, frac)
                  \in (VCO_MIN \div 2)..(VCO_MAX \div 2)

\* C18: when clk_compute_pll1_settings() returns 0 its result has M in
\* 0..63, reference/(M+1) in 8..16 MHz, N in 24..99, P in 0..127, FRAC in
\* 0..8191 and VCO/2 in 400..800 MHz; it returns an error only when no
\* candidate exists; for 24 MHz and 650000 kHz it succeeds.
C18_search_result_in_domain ==
    LET c == cas.last IN
    /\ c.ret = "0" =>
          /\ c.cfg.m \in 0..63
          /\ c.input_freq \div (c.cfg.m + 1) \in 8000000..16000000
          /\ c.cfg.n \in 24..99
          /\ c.cfg.p \in 0..127
          /\ c.frac \in 0..8191
          /\ HalfVco(c.input_freq, c.cfg.m, c.cfg.n, c.frac) \in 400000000..800000000
    /\ c.ret = "-1" => ~SearchHasCandidate(c.input_freq, c.freq_khz)
    /\ (c.input_freq = 24000000 /\ c.freq_khz = 650000) => c.ret = "0"

\* The rate of PLL1_P the forward math gives for the settings of entry i.
ForwardRate(i) ==
    stm32mp1_read_pll_freq(
        stm32mp1_osc, rckselr,
        [pll EXCEPT !["_PLL1"] =
            [PllRunning(pll1_settings.cfg[i], pll1_settings.frac[i])
                EXCEPT !.fracle = TRUE]],
        "_PLL1", "_DIV_P")

\* C19: after stm32mp1_clk_compute_all_pll1_settings() succeeded, for every
\* entry of the table, computed or saved from the running PLL1 (also when
\* the MPU runs on PLL1_P / MPUDIV), the forward math on its (M, N, P, FRAC)
\* and the reference of PLL1 is within 1 Hz of its frequency in Hz.
C19_entries_yield_their_frequency ==
    (cas.pc = "done" /\ cas.ret = "0") =>
        \A i \in 1..Len(cas.dt) :
            /\ ForwardRate(i) - pll1_settings.freq[i] * 1000 <= 1
            /\ pll1_settings.freq[i] * 1000 - ForwardRate(i) <= 1

\* The rate the formulas give without any wrap, for the registers of the
\* PLL that was read.
ExactRate ==
    LET p      == pll[pllrate.pll_id]
        refclk == stm32mp1_pll_get_fref(stm32mp1_osc, rckselr, pllrate.pll_id)
        fvco   == IF p.fracle
                  THEN MulDiv(refclk, (p.divn + 1) * 8192 + p.fracv,
                              (p.divm + 1) * 8192)
                  ELSE MulDiv(refclk, p.divn + 1, p.divm + 1)
    IN  fvco \div (p.divp + 1)

\* C20: the rate read from the registers is floor(Fvco / (P + 1)) with
\* Fvco = floor(ref * ((N+1) * 2^13 + FRAC) / ((M+1) * 2^13)) when FRACLE is
\* set and floor(ref * (N+1) / (M+1)) otherwise, without overflow or wrap
\* for M in 0..63, N in 0..199, FRAC in 0..8191 and a reference up to
\* 64 MHz; 24 MHz, M=1, N=65, P=1 gives 396,000,000 Hz without FRACLE and
\* 399,000,000 Hz with FRAC=4096 and FRACLE.
C20_rate_is_exact ==
    pllrate.read =>
        LET p == pll[pllrate.pll_id] IN
        /\ pllrate.ret = ExactRate
        /\ (rckselr[pllrate.pll_id] = 1 /\ p.divm = 1 /\ p.divn = 65 /\ p.divp = 1) =>
              /\ ~p.fracle => pllrate.ret = 396000000
              /\ (p.fracle /\ p.fracv = 4096) => pllrate.ret = 399000000

\* The CFGR1 word (DIVN, DIVM, IFRGE) that PLL1 holds and the one entry i of
\* the OPP table asks for.
Cfgr1Now == <<pll["_PLL1"].divn, pll["_PLL1"].divm, pll["_PLL1"].ifrge>>

Cfgr1For(i) ==
    LET v == stm32mp1_pll_compute_pllxcfgr1(stm32mp1_osc, rckselr, "_PLL1",
                                            pll1_settings.cfg[i])
    IN  <<v.divn, v.divm, v.ifrge>>

\* The FRACR word (fractional value with FRACLE) and the CFGR2 word (output
\* dividers) of PLL1 are the ones entry i asks for.
FracrAndCfgr2Same(i) ==
    /\ pll["_PLL1"].fracv = pll1_settings.frac[i] /\ pll["_PLL1"].fracle
    /\ <<pll["_PLL1"].divp, pll["_PLL1"].divq, pll["_PLL1"].divr>> =
       <<pll1_settings.cfg[i].p, pll1_settings.cfg[i].q, pll1_settings.cfg[i].r>>

\* stm32mp1_pll1_config_from_opp_khz() is at its on-the-fly test for entry i:
\* the frequency is in the table, the MPUDIV shortcut does not apply and the
\* reference frequency of the entry is in range.
DecidesOnTheFly(i) ==
    /\ opp.pc = "config"
    /\ i = OppLookup(pll1_settings, opp.cfg_khz)
    /\ i <= PLAT_MAX_OPP_NB
    /\ stm32mp1_get_mpu_div(stm32mp1_osc, rckselr, pll, opp.cfg_khz) < 0
    /\ stm32mp1_pll_compute_pllxcfgr1(stm32mp1_osc, rckselr, "_PLL1",
                                      pll1_settings.cfg[i]).ret = "0"

\* What the caller does with each of the three decisions.
TakesStopReconfigure == opp'.pc = "set_clksrc_hsi" /\ opp'.on_the_fly = -1
TakesOnFly           == opp'.pc = "pll_config" /\ opp'.on_the_fly = 0
TakesSame            == opp'.pc \notin {"set_clksrc_hsi", "pll_config"}

\* C21: the on-the-fly decision is stop-and-reconfigure exactly when the
\* CFGR1 word (N, M, IFRGE) asked for differs from the register; otherwise
\* it is `same' exactly when both the FRACR word (frac | FRACLE) and the
\* output-divider word equal the registers, and `onfly' otherwise; it is
\* never onfly or same when M or N changes, and deciding writes no register.
C21_on_the_fly_decision ==
    [][\A i \in 1..PLAT_MAX_OPP_NB : DecidesOnTheFly(i) =>
        /\ TakesStopReconfigure <=> Cfgr1Now # Cfgr1For(i)
        /\ TakesSame <=> (Cfgr1Now = Cfgr1For(i) /\ FracrAndCfgr2Same(i))
        /\ TakesOnFly <=> (Cfgr1Now = Cfgr1For(i) /\ ~FracrAndCfgr2Same(i))
        /\ (\/ pll["_PLL1"].divn # pll1_settings.cfg[i].n
            \/ pll["_PLL1"].divm # pll1_settings.cfg[i].m) => TakesStopReconfigure
        /\ UNCHANGED <<pll, rckselr, mpckselr, mpckdivr>>]_vars

\* The decision has been onfly for an entry whose N and M are the ones of
\* the running PLL1 and whose P differs: the configuration follows.
C21_witness ==
    /\ opp.pc = "pll_config" /\ opp.on_the_fly = 0
    /\ pll["_PLL1"].divn = pll1_settings.cfg[opp.i].n
    /\ pll["_PLL1"].divm = pll1_settings.cfg[opp.i].m
    /\ pll["_PLL1"].divp # pll1_settings.cfg[opp.i].p

\* The divisors the 3-bit AXIDIV and APBxDIV fields stand for.
AXIDIV == <<1, 2, 3, 4, 4, 4, 4, 4>>

APBDIV == <<1, 2, 4, 8, 16, 16, 16, 16>>

\* The rate of the source the AXI selector names.
AxiSourceRate ==
    CASE muxsel["AXI"].src = "HSI" -> stm32mp1_osc["_HSI"]
      [] muxsel["AXI"].src = "HSE" -> stm32mp1_osc["_HSE"]
      [] muxsel["AXI"].src = "PLL" ->
            stm32mp1_read_pll_freq(stm32mp1_osc, rckselr, pll, "_PLL2", "_DIV_P")

\* The rate returned is the source rate divided as the tables say.
RateAsTabled ==
    (clkrate.read /\ muxsel["AXI"].src \in {"HSI", "HSE", "PLL"}) =>
        LET aclk == AxiSourceRate \div AXIDIV[divr["AXI"].div + 1] IN
        clkrate.ret =
            CASE clkrate.p = "_PCLK4" -> aclk \div APBDIV[divr["APB4"].div + 1]
              [] clkrate.p = "_PCLK5" -> aclk \div APBDIV[divr["APB5"].div + 1]
              [] OTHER                -> aclk

\* C22: for every AXI source and every value of the AXIDIV, APB4DIV and
\* APB5DIV fields the rate of ACLK, HCLK2 and HCLK6 is
\* source / AXIDIV[field], and the rate of PCLK4 (PCLK5) is that rate
\* divided by APBDIV[field] of APB4 (APB5); computing a rate writes no
\* register.
C22_axi_rates ==
    /\ []RateAsTabled
    /\ [][clkrate' # clkrate =>
            UNCHANGED <<rcc_en, pll, rckselr, mpckselr, mpckdivr, oc, muxsel,
                        divr, rcc_regs>>]_vars

\* The example of the specification: PLL2_P = 266 MHz, AXIDIV field 1,
\* APB5DIV field 2, and PCLK5 read as 33.25 MHz.
C22_witness ==
    /\ clkrate.read /\ clkrate.p = "_PCLK5" /\ muxsel["AXI"].src = "PLL"
    /\ stm32mp1_read_pll_freq(stm32mp1_osc, rckselr, pll, "_PLL2", "_DIV_P")
          = 266000000
    /\ divr["AXI"].div = 1 /\ divr["APB5"].div = 2
    /\ clkrate.ret = 33250000

\* Entry i holds what clk_compute_pll1_settings() found for its frequency
\* and the reference of PLL1: a successful result, Q = R = 0, only the P
\* output enabled.
HoldsSearchResult(i) ==
    LET c == ComputedTable[Pll1InputFreq][pll1_settings.freq[i]] IN
    /\ pll1_settings.freq[i] \in SearchTargets
    /\ c.ret = "0"
    /\ pll1_settings.cfg[i] = c.cfg /\ pll1_settings.frac[i] = c.frac
    /\ pll1_settings.cfg[i].q = 0 /\ pll1_settings.cfg[i].r = 0
    /\ pll1_settings.cfg[i].o = {"_DIV_P"}

\* Entry i holds registers of a running PLL1 that
\* clk_save_current_pll1_settings() saved into it.
HoldsSnapshot(i) ==
    /\ <<i, pll1_settings.cfg[i], pll1_settings.frac[i]>> \in cas.snaps
    /\ pll1_settings.cfg[i].o # {}

\* The entries fetched from the device tree.
Fetched == {i \in 1..PLAT_MAX_OPP_NB : i <= Len(cas.dt)}

\* C23: whenever the validity sentinel of the OPP table is set, every entry
\* fetched from the device tree holds PLL1 settings, a snapshot of the
\* running PLL1 or a successful search result with Q = R = 0 and only the
\* P output enabled; a population that is skipped, rejected or fails for an
\* entry never leaves the sentinel set over entries that are not populated,
\* also when the population is run more than once.
C23_valid_table_is_populated ==
    clk_pll1_settings_are_valid(pll1_settings) =>
        /\ cas.dtret = "0"
        /\ \A i \in Fetched :
              /\ pll1_settings.freq[i] = cas.dt[i]
              /\ HoldsSearchResult(i) \/ HoldsSnapshot(i)

\* ------------------------------------------------------------------------
\* Parent resolution
\* ------------------------------------------------------------------------

\* The parent ids parent_id_clock_id[] ties to the clock id of the call.
IdentityParents == {n \in 1.._PARENT_NB : parent_id_clock_id[ParentIds[n]] = parent.id}

\* The gates of the image whose id is the clock id of the call.
GatesOfCall == {i \in 1..NB_GATES(image) : gate_ref(image, i).index = parent.id}

\* The first of them.
GateOfCall == gate_ref(image, CHOOSE i \in GatesOfCall : \A j \in GatesOfCall : i <= j)

HasFixedParent == GateOfCall.fixed # "_UNKNOWN_ID"
HasSelector == GateOfCall.sel # "_UNKNOWN_SEL"

\* The candidate tuple of the gate's selector and the value of its field.
Candidates == stm32mp1_clk_sel[GateOfCall.sel].parent
LiveField == ckselr[GateOfCall.sel]

ReturnedToCaller(v) == ~parent.out.panic /\ parent.out.ret = v /\ panicked = "none"

\* The outcome of the call for an id parent_id_clock_id[] or a gate knows.
ResolvedAsTabled ==
    IF IdentityParents # {}
    THEN \E n \in IdentityParents :
            /\ \A m \in IdentityParents : n <= m
            /\ ReturnedToCaller(ParentIds[n])
    ELSE IF HasFixedParent THEN ReturnedToCaller(GateOfCall.fixed)
    ELSE /\ HasSelector
         /\ IF LiveField < Len(Candidates)
            THEN ReturnedToCaller(Candidates[LiveField + 1])
            ELSE ReturnedToCaller("-EINVAL")

\* C24 as stated: the identity-table parent for an oscillator, PLL output
\* or bus/CPU clock; otherwise the gate's fixed parent; otherwise the
\* selector candidate at the index read from the live field; an error
\* result returned to the caller when the field value is outside the
\* candidates or when the id matches neither the identity table nor a gate.
C24_parent_resolution_as_stated ==
    parent.called =>
        IF IdentityParents = {} /\ GatesOfCall = {}
        THEN ReturnedToCaller("-EINVAL")
        ELSE ResolvedAsTabled

\* C24, amended: as above, but the error result is returned when the field
\* value is outside the candidates or when the gate declares neither a fixed
\* parent nor a selector; when the id matches neither the identity table nor
\* a gate the call does not return: it panics.
C24_parent_resolution ==
    parent.called =>
        IF IdentityParents = {} /\ GatesOfCall = {}
        THEN parent.out.panic /\ panicked = "stm32mp1_clk_get_parent"
        ELSE IF IdentityParents = {} /\ ~HasFixedParent /\ ~HasSelector
        THEN ReturnedToCaller("-EINVAL")
        ELSE ResolvedAsTabled

\* USART2_K in BL2: its selector has 5 candidates and the field reads 6.
C24_witness ==
    /\ parent.called /\ parent.id = "USART2_K" /\ image = "BL2"
    /\ IdentityParents = {} /\ ~HasFixedParent /\ HasSelector
    /\ LiveField = 6 /\ Len(Candidates) = 5
    /\ ReturnedToCaller("-EINVAL")

\* ------------------------------------------------------------------------
\* Bring-up: order of the steps, PLLs kept
\* ------------------------------------------------------------------------

\* MPU, AXI and MCU run from HSI and each source-ready bit reads 1.
AllOnHsi ==
    /\ mpckselr = [src |-> "HSI", srcrdy |-> TRUE]
    /\ muxsel["AXI"] = [src |-> "HSI", srcrdy |-> TRUE]
    /\ muxsel["MCU"] = [src |-> "HSI", srcrdy |-> TRUE]

\* Every PLL the device tree configures is locked and drives the outputs
\* the device tree declares.
AllValidPllsUp ==
    \A p \in PllIds :
        dt.pllcfg_valid[p] =>
            /\ pll[p].pllon /\ pll[p].pllrdy
            /\ dt.pllcfg[p].o \subseteq pll[p].diven

\* A step of the stop loop, or any step that clears a PLLON bit.
StopsAPll ==
    \/ clkinit.pc = "pll_stop"
    \/ \E p \in PllIds : pll[p].pllon /\ ~pll'[p].pllon

\* A step that writes the source the device tree declares for MPU, AXI
\* or MCU.
SwitchesToDeclared == clkinit.pc \in {"mpu_src", "axi_src", "mcu_src"}

\* C25: during stm32mp1_clk_init() no PLL is stopped before MPU, AXI and
\* MCU have each been switched to HSI with source-ready observed, and MPU,
\* AXI and MCU are switched to the sources of the device tree only after
\* every valid PLL has been observed locked and had its declared outputs
\* enabled.
C25_stop_after_hsi_switch_before_lock ==
    [][/\ StopsAPll => AllOnHsi
       /\ SwitchesToDeclared => AllValidPllsUp]_vars

\* After an MPU reset that left MPU, AXI and MCU on the PLLs: the PLLs were
\* stopped, configured again and locked, and the MPU is back on PLL1_P.
C25_witness ==
    /\ boot = "running" /\ dt.clksrc.MPU = "PLL"
    /\ clkinit.pc = "axi_src"
    /\ mpckselr = [src |-> "PLL", srcrdy |-> TRUE]
    /\ muxsel["AXI"].src = "HSI"
    /\ AllValidPllsUp

\* PLL p is marked preserved: pll3_preserve for PLL3, pll4_preserve for PLL4.
MarkedPreserved(p) ==
    \/ p = "_PLL3" /\ clkinit.pll3_preserve
    \/ p = "_PLL4" /\ clkinit.pll4_preserve

\* The writes of the call that stop PLL p, select its reference or load
\* its N/M and fractional registers.
ForbiddenWrites(p) == {<<p, "CR:stop">>, <<p, "RCKSELR">>, <<p, "CFGR1">>, <<p, "FRACR">>}

\* The fields of RCC_RCKxSELR, PLLxCFGR1 and PLLxFRACR of PLL p, and PLLON.
KeptFields(selr, plls, p) ==
    <<selr[p], plls[p].divn, plls[p].divm, plls[p].ifrge, plls[p].fracv,
      plls[p].fracle, plls[p].pllon>>

\* The call has made none of the forbidden writes on a preserved PLL; on
\* PLL4 kept from the boot ROM it has written, of the configuration
\* registers, CFGR2 alone, and PLLON is set; no PLL is preserved without
\* the MPU-reset flag and without USB boot.
PreservedUntouched ==
    /\ \A p \in PllIds :
          MarkedPreserved(p) =>
              /\ clkinit.wrote \cap ForbiddenWrites(p) = {}
              /\ <<p, "CR:start">> \notin clkinit.wrote
              /\ pll[p].pllon
    /\ clkinit.pll4_bootrom =>
          /\ MarkedPreserved("_PLL4")
          /\ {w \in clkinit.wrote : w[1] = "_PLL4"} \subseteq
                {<<"_PLL4", "CFGR2">>, <<"_PLL4", "CR:output">>}
    /\ ~MpuReset(boot) /\ ~UsbBoot(boot) => \A p \in PllIds : ~MarkedPreserved(p)

\* C26: during stm32mp1_clk_init() a PLL marked preserved is never stopped,
\* its reference selector is not rewritten and its N/M and fractional
\* registers are not written (they and PLLON keep their value in every
\* step); for PLL4 kept from the boot ROM only the output-divider register
\* is re-applied and PLLON is never modified; without the MPU-reset flag
\* and without USB boot no PLL is preserved.
C26_preserved_pll_untouched ==
    /\ []PreservedUntouched
    /\ [][\A p \in PllIds :
            MarkedPreserved(p) =>
                KeptFields(rckselr', pll', p) = KeptFields(rckselr, pll, p)]_vars

\* USB boot with the USB PHY on PLL4_R: stm32mp1_clk_init() has returned 0,
\* PLL4 holds the boot ROM's N, M and fraction and the output dividers of
\* the device tree.
C26_witness ==
    /\ boot = "usb" /\ clkinit.pc = "done" /\ clkinit.ret = "0"
    /\ clkinit.pll4_bootrom /\ MarkedPreserved("_PLL4")
    /\ <<"_PLL4", "CFGR2">> \in clkinit.wrote
    /\ pll["_PLL4"].divn = BootRomPll4.divn
    /\ pll["_PLL4"].divn # dt.pllcfg["_PLL4"].n
    /\ pll["_PLL4"].divq = dt.pllcfg["_PLL4"].q
    /\ pll["_PLL4"].divq # BootRomPll4.divq
    /\ pll["_PLL4"].pllon

\* ------------------------------------------------------------------------
\* The on-the-fly path of stm32mp1_set_opp_khz()
\* ------------------------------------------------------------------------

\* stm32mp1_pll1_config_from_opp_khz() is about to configure PLL1 after the
\* decision `onfly'.
OnTheFlyStep == opp.pc = "pll_config" /\ opp.on_the_fly = 0

\* The fields of PLL1 other than the fractional and output-divider words.
Pll1Kept(p) == <<p.divn, p.divm, p.ifrge, p.pllon, p.pllrdy, p.diven>>

\* C27: on the on-the-fly path of stm32mp1_set_opp_khz() (the CFGR1 word
\* asked for equals the register, FRACR or CFGR2 differs) PLLON and the
\* output enables of PLL1 are not cleared, PLL1 is not stopped, the MPU
\* source and MPU divider registers are not written, and only the
\* fractional and output-divider registers of PLL1 change value: also
\* with respect to the registers at entry when the path is the first
\* attempt of the call.
C27_on_the_fly_path_frame ==
    /\ [](OnTheFlyStep => Cfgr1Now = Cfgr1For(opp.i) /\ ~FracrAndCfgr2Same(opp.i))
    /\ [][OnTheFlyStep =>
            /\ Pll1Kept(pll'["_PLL1"]) = Pll1Kept(pll["_PLL1"])
            /\ \A p \in PllIds \ {"_PLL1"} : pll'[p] = pll[p]
            /\ UNCHANGED <<mpckselr, mpckdivr, rckselr>>
            /\ opp'.pc = "idle"
            /\ opp.phase = "apply" =>
                  /\ Pll1Kept(pll'["_PLL1"]) = Pll1Kept(opp_hist.regs[1]["_PLL1"])
                  /\ <<mpckselr', mpckdivr'>> = <<opp_hist.regs[2], opp_hist.regs[3]>>
                  /\ opp'.ret = "0"]_vars

\* A call has returned 0 with N and M of PLL1 as at entry and P changed:
\* the on-the-fly path wrote the output dividers of the running PLL1.
C27_witness ==
    /\ opp.pc = "idle" /\ opp.ret = "0" /\ opp_calls > 0
    /\ opp_hist.regs # <<>>
    /\ Pll1Kept(pll["_PLL1"]) = Pll1Kept(opp_hist.regs[1]["_PLL1"])
    /\ pll["_PLL1"].divp # opp_hist.regs[1]["_PLL1"].divp
    /\ pll["_PLL1"].pllon /\ "_DIV_P" \in pll["_PLL1"].diven
    /\ mpckselr = opp_hist.regs[2]

\* ------------------------------------------------------------------------
\* PLL configure, start and output enable
\* ------------------------------------------------------------------------

\* stm32mp1_pll_config() has returned on the PLL under test.
ConfigReturned ==
    pllop.pc = "idle" /\ pllop.fn = "stm32mp1_pll_config" /\ pllop.ret # "none"

\* The reference of the PLL under test divided by M + 1, in Hz (the
\* integer quotient the code computes).
DividedRef ==
    stm32mp1_clk_get_fixed(stm32mp1_osc,
                           stm32mp1_clk_pll[pllop.id].refclk[rckselr[pllop.id] + 1])
        \div (pllop.pllcfg.m + 1)

\* The configuration registers (CFGR1, FRACR, CFGR2) of a PLL.
ConfigRegs(p) == <<p.divn, p.divm, p.ifrge, p.fracv, p.fracle, p.divp, p.divq, p.divr>>

\* The failed call wrote no register of the PLL.
NothingWritten ==
    /\ pllop.writes = <<>>
    /\ pll[pllop.id] = pllop.pre

\* C28 as stated: PLL configure succeeds, for each of PLL1 to PLL4, only
\* if reference/(M+1) lies in [8 MHz, 16 MHz]; otherwise it returns an
\* error and writes no PLL register.
C28_config_window_8_16_as_stated ==
    ConfigReturned =>
        IF DividedRef >= 8000000 /\ DividedRef <= 16000000
        THEN TRUE
        ELSE pllop.ret # "0" /\ NothingWritten

\* C28, amended: the window is [8 MHz, 16 MHz] for PLL1 and PLL2 and
\* [4 MHz, 16 MHz] for PLL3 and PLL4; configure succeeds only if
\* reference/(M+1) lies in the window of the PLL (and does succeed then),
\* otherwise it returns an error and CFGR1, FRACR and CFGR2 keep their
\* values.
C28_config_window_per_pll ==
    ConfigReturned =>
        LET lo == IF pllop.id \in {"_PLL1", "_PLL2"} THEN 8000000 ELSE 4000000 IN
        IF DividedRef >= lo /\ DividedRef <= 16000000
        THEN pllop.ret = "0"
        ELSE pllop.ret = "-EINVAL" /\ NothingWritten

\* PLL3 configured from HSE with M + 1 = 4: 6 MHz is accepted.
C28_witness ==
    /\ ConfigReturned /\ pllop.id = "_PLL3" /\ pllop.ret = "0"
    /\ DividedRef = 6000000
    /\ ConfigRegs(pll["_PLL3"]) # ConfigRegs(pllop.pre)

\* stm32mp1_pll_config() has written FRACR at least once in the call in
\* progress or just returned.
FracrWriteStarted ==
    /\ pllop.fn = "stm32mp1_pll_config"
    /\ \E k \in 1..Len(pllop.writes) :
          pllop.writes[k] \in {"FRACR = 0", "FRACR = fracv", "FRACR |= FRACLE"}

\* C29: stm32mp1_pll_config() writes CFGR1, then the fractional value
\* (FRACR with 0, then with fracv << shift), then FRACLE, then the output
\* dividers; once it has started writing FRACR, FRACLE is never set while
\* the fractional field holds a value other than the requested one; on
\* return FRACR equals (fracv << shift) | FRACLE.
C29_config_write_order ==
    /\ FracrWriteStarted /\ pll[pllop.id].fracle => pll[pllop.id].fracv = pllop.fracv
    /\ ConfigReturned /\ pllop.ret = "0" =>
          /\ pllop.writes = <<"CFGR1", "FRACR = 0", "FRACR = fracv",
                              "FRACR |= FRACLE", "CFGR2">>
          /\ pll[pllop.id].fracv = pllop.fracv
          /\ pll[pllop.id].fracle

\* A running PLL with FRACLE set and fraction 0 has been configured with
\* fraction 8191.
C29_witness ==
    /\ ConfigReturned /\ pllop.ret = "0"
    /\ pllop.pre.fracle /\ pllop.pre.fracv = 0 /\ pllop.pre.pllon
    /\ pllop.fracv = 2^FRACV_BITS - 1
    /\ pll[pllop.id].fracv = 2^FRACV_BITS - 1 /\ pll[pllop.id].fracle
    /\ Len(pllop.writes) = 5

\* The fields of PLLxCR that stm32mp1_pll_start() leaves alone, with the
\* other registers of the PLL.
StartKeeps(p) == <<ConfigRegs(p), p.pllrdy, p.sscg_ctrl>>

\* stm32mp1_pll_output() has returned -ETIMEDOUT.
OutputTimedOut ==
    /\ pllop.pc = "idle" /\ pllop.fn = "stm32mp1_pll_output"
    /\ pllop.ret = "-ETIMEDOUT"

\* C30: from stm32mp1_pll_start() until stm32mp1_pll_output() reads PLLRDY
\* set the P/Q/R output enables stay cleared; start sets PLLON, clears the
\* three output enables and leaves the spread-spectrum control bit (and all
\* else) unchanged; stm32mp1_pll_output() sets the requested enables only
\* after it read PLLRDY set, and on lock timeout returns -ETIMEDOUT having
\* set no output enable.
C30_outputs_off_until_locked ==
    /\ [](pllop.since_start => pll[pllop.id].diven = {})
    /\ [](OutputTimedOut =>
            /\ pllop.writes = <<>>
            /\ pll[pllop.id].diven = pllop.pre.diven
            /\ ~pll[pllop.id].pllrdy)
    /\ [][/\ pllop.pc = "start" =>
                /\ pll'[pllop.id].pllon
                /\ pll'[pllop.id].diven = {}
                /\ StartKeeps(pll'[pllop.id]) = StartKeeps(pll[pllop.id])
          /\ (pllop.fn = "stm32mp1_pll_output"
                /\ pll'[pllop.id].diven # pll[pllop.id].diven) =>
                /\ pllop.pc = "set_outputs"
                /\ pll[pllop.id].pllrdy
                /\ pll'[pllop.id].diven = pll[pllop.id].diven \cup pllop.output
                /\ pllop'.ret = "0"]_vars

\* After a start with the spread-spectrum control bit set, the lock was
\* read and the three outputs enabled.
C30_witness ==
    /\ pllop.pc = "idle" /\ pllop.fn = "stm32mp1_pll_output" /\ pllop.ret = "0"
    /\ pllop.calls = 2
    /\ pllop.pre.pllon /\ pllop.pre.diven = {} /\ ~pllop.pre.pllrdy
    /\ pll[pllop.id].sscg_ctrl /\ pll[pllop.id].pllrdy
    /\ pll[pllop.id].diven = {"_DIV_P", "_DIV_Q", "_DIV_R"}

\* stm32mp1_pll_stop() has returned.
StopReturned == pllop.pc = "idle" /\ pllop.fn = "stm32mp1_pll_stop"

\* C31: stm32mp1_pll_stop() clears the P/Q/R output enables before it
\* clears PLLON, returns 0 only after PLLRDY has been read as 0, and
\* returns -ETIMEDOUT, with PLLON already cleared, if PLLRDY never drops.
C31_stop_order ==
    /\ [](StopReturned =>
            /\ pllop.ret \in {"0", "-ETIMEDOUT"}
            /\ ~pll[pllop.id].pllon
            /\ pll[pllop.id].diven = {}
            /\ pllop.ret = "0" <=> ~pll[pllop.id].pllrdy)
    /\ [][pllop.fn = "stm32mp1_pll_stop" =>
            /\ (pll[pllop.id].pllon /\ ~pll'[pllop.id].pllon) =>
                    pll[pllop.id].diven = {} /\ pllop.pc = "stop_pllon"
            /\ (pllop.pc # "idle" /\ pllop'.pc = "idle") =>
                    /\ pllop.pc = "stop_poll"
                    /\ ~pll[pllop.id].pllon
                    /\ pllop'.ret = "0" => ~pll'[pllop.id].pllrdy]_vars

\* A locked PLL with outputs enabled was stopped and PLLRDY never dropped.
C31_witness ==
    /\ StopReturned /\ pllop.ret = "-ETIMEDOUT"
    /\ pllop.pre.pllon /\ pllop.pre.pllrdy /\ pllop.pre.diven # {}
    /\ ~pll[pllop.id].pllon /\ pll[pllop.id].pllrdy
    /\ pll[pllop.id].diven = {}

\* ------------------------------------------------------------------------
\* The st,pkcs words of stm32mp1_clk_init()
\* ------------------------------------------------------------------------

NotCkperDisabled(w) == w # CLK_CKPER_DISABLED

\* The words of the list other than CLK_CKPER_DISABLED, in list order.
OtherPkcs == SelectSeq(dt.pkcs_cell, NotCkperDisabled)

\* The list has CLK_CKPER_DISABLED.
ListDisablesCkper ==
    \E k \in 1..Len(dt.pkcs_cell) : dt.pkcs_cell[k] = CLK_CKPER_DISABLED

\* C32: when stm32mp1_clk_init() applies the st,pkcs words, the word that
\* disables CK_PER is written only after every other word of the list has
\* been written, wherever it stands in the list and however often: it is
\* the last write, the writes before it are the other words in list order,
\* and the CK_PER source field takes the value of the word only then.
C32_ckper_disabled_last ==
    /\ [](\A k \in 1..Len(clkinit.pkcs_log) :
            clkinit.pkcs_log[k] = CLK_CKPER_DISABLED =>
                /\ k = Len(clkinit.pkcs_log)
                /\ SubSeq(clkinit.pkcs_log, 1, k - 1) = OtherPkcs)
    /\ [](clkinit.pc = "pkcs_usb" =>
            clkinit.pkcs_log =
                IF ListDisablesCkper THEN Append(OtherPkcs, CLK_CKPER_DISABLED)
                ELSE OtherPkcs)
    /\ [][ckselr'["_PER_SEL"] # ckselr["_PER_SEL"]
            /\ ckselr'["_PER_SEL"] = CLK_CKPER_DISABLED.low % 16
            => clkinit.pkcs_log = OtherPkcs]_vars

\* A list that starts with CLK_CKPER_DISABLED and has it twice was
\* applied: four writes, the last one disables CK_PER.
C32_witness ==
    /\ clkinit.pc = "pkcs_usb"
    /\ dt.pkcs_cell[1] = CLK_CKPER_DISABLED
    /\ Cardinality({k \in 1..Len(dt.pkcs_cell) :
                        dt.pkcs_cell[k] = CLK_CKPER_DISABLED}) = 2
    /\ Len(clkinit.pkcs_log) = 4
    /\ clkinit.pkcs_log[4] = CLK_CKPER_DISABLED
    /\ ckselr["_PER_SEL"] = 3 /\ ckselr["_QSPI_SEL"] = 3

\* The selector fields after the words l[k..] are written in list order.
RECURSIVE ApplyPkcs(_, _, _)
ApplyPkcs(sel, l, k) ==
    IF k > Len(l) THEN sel
    ELSE ApplyPkcs(stm32mp1_pkcs_config(sel, l[k]), l, k + 1)

\* The USBPHY and USBO fields the device tree selects: those of its words,
\* the boot ROM's where it has none for a field.
DtUsbSel ==
    UsbReg(ApplyPkcs([FieldsAt(0) EXCEPT !["_USBPHY_SEL"] = BootRomUsbSel(boot)[1],
                                         !["_USBO_SEL"] = BootRomUsbSel(boot)[2]],
                     dt.pkcs_cell, 1))

BadValue == clkinit.pc = "done" /\ clkinit.ret = "-FDT_ERR_BADVALUE"

\* C33: on a boot over USB with PLL4 kept from the boot ROM,
\* stm32mp1_clk_init() returns -FDT_ERR_BADVALUE when the USBPHY and USBO
\* fields the device tree selects differ from the boot ROM's, and goes on
\* when they are equal; it returns that error in no other case.
C33_usb_mux_checked ==
    /\ [](BadValue => /\ UsbBoot(boot) /\ clkinit.pll4_bootrom
                      /\ DtUsbSel # BootRomUsbSel(boot)
                      /\ UsbReg(ckselr) = DtUsbSel)
    /\ [](clkinit.pc \in {"hsi_off", "return"}
            /\ UsbBoot(boot) /\ clkinit.pll4_bootrom
            => DtUsbSel = BootRomUsbSel(boot))
    /\ [][clkinit.pc = "pkcs_usb" /\ UsbBoot(boot) /\ clkinit.pll4_bootrom =>
            IF DtUsbSel # BootRomUsbSel(boot)
            THEN clkinit'.pc = "done" /\ clkinit'.ret = "-FDT_ERR_BADVALUE"
            ELSE clkinit'.pc = "hsi_off" /\ clkinit'.ret = "none"]_vars

\* Boot over USB from PLL4_R, the device tree puts the USB PHY on HSE.
C33_witness ==
    /\ BadValue
    /\ boot = "usb" /\ clkinit.pll4_bootrom
    /\ BootRomUsbSel(boot) = <<1, 0>>
    /\ UsbReg(ckselr) = <<0, 0>>
    /\ \E k \in 1..Len(dt.pkcs_cell) : dt.pkcs_cell[k] = CLK_USBPHY_HSE

\* ------------------------------------------------------------------------
\* The HSI divider and the LSE drive strength
\* ------------------------------------------------------------------------

HsidivReturned == oscop.pc = "idle" /\ oscop.fn = "stm32mp1_hsidiv"

\* The k of 0..3 with 64 MHz / 2^k = f, as a set: empty when there is none.
HsiDividerOf(f) == {k \in 0..3 : f * 2^k = MAX_HSI_HZ}

\* C34: for a declared HSI rate f, stm32mp1_hsidiv() succeeds only if
\* f = 64 MHz / 2^k for a k of 0..3, after success the HSIDIV field of
\* RCC_HSICFGR is k whatever it held before, and any other f is rejected
\* with an error before any register write.
C34_hsidiv_field_is_k ==
    HsidivReturned =>
        /\ oscop.ret = "0" =>
              /\ HsiDividerOf(oscop.hsifreq) # {}
              /\ oc.hsidiv \in HsiDividerOf(oscop.hsifreq)
        /\ HsiDividerOf(oscop.hsifreq) = {} =>
              /\ oscop.ret = "-1"
              /\ oscop.writes = <<>>
              /\ oc.hsidiv = oscop.pre.hsidiv

LseEnableRuns == oscop.fn = "stm32mp1_lse_enable"

LseEnableReturned == oscop.pc = "idle" /\ LseEnableRuns

Distance(a, b) == IF a > b THEN a - b ELSE b - a

\* DIGBYP and LSEBYP are set as the flags of the call ask.
BypassApplied ==
    /\ oscop.digbyp => bdcr.digbyp
    /\ oscop.bypass \/ oscop.digbyp => bdcr.lsebyp

\* C35: stm32mp1_lse_enable() changes the LSEDRV field only by one level
\* at a time, each time towards the target; it ends with the field at the
\* target for every start and target, after as many writes as the levels
\* between them; it sets LSEON only after the bypass flags are applied and
\* the field has reached the target.
C35_lse_drive_one_step ==
    /\ [](LseEnableReturned =>
            /\ bdcr.lsedrv = oscop.lsedrv
            /\ Len(oscop.drv) = Distance(oscop.pre.lsedrv, oscop.lsedrv)
            /\ bdcr.lseon /\ BypassApplied)
    /\ [](LseEnableRuns =>
            \A k \in 1..Len(oscop.writes) :
                oscop.writes[k] = "LSEON" => k = Len(oscop.writes))
    /\ [][LseEnableRuns =>
            /\ bdcr'.lsedrv # bdcr.lsedrv =>
                  /\ Distance(bdcr'.lsedrv, bdcr.lsedrv) = 1
                  /\ Distance(bdcr'.lsedrv, oscop.lsedrv)
                        = Distance(bdcr.lsedrv, oscop.lsedrv) - 1
            /\ Len(oscop'.writes) > Len(oscop.writes)
                  /\ oscop'.writes[Len(oscop'.writes)] = "LSEON" =>
                  /\ bdcr.lsedrv = oscop.lsedrv
                  /\ BypassApplied]_vars

\* From the highest drive to the lowest with digital bypass: three writes
\* of the field, 2, 1, 0, then LSEON.
C35_witness ==
    /\ LseEnableReturned
    /\ oscop.pre.lsedrv = 3 /\ oscop.lsedrv = 0 /\ oscop.digbyp
    /\ oscop.drv = <<2, 1, 0>>
    /\ oscop.writes = <<"DIGBYP", "LSEBYP", "LSEDRV", "LSEDRV", "LSEDRV", "LSEON">>
    /\ bdcr = [digbyp |-> TRUE, lsebyp |-> TRUE, lsedrv |-> 0, lseon |-> TRUE]
\* ------------------------------------------------------------------------
\* stm32mp1_clock_stopmode_resume()
\* ------------------------------------------------------------------------

\* PLL p, when it was running at stm32mp1_clock_stopmode_save(), reads
\* locked and has the outputs enabled that were saved.
StopPllRestored(p, cr) ==
    pll_was_running(cr) => pll[p].pllrdy /\ pll[p].pllon /\ cr.diven \subseteq pll[p].diven

\* The step just taken wrote register r (second field what).
StopWrote(r, what) ==
    /\ Len(stopmode'.log) = Len(stopmode.log) + 1
    /\ stopmode'.log[Len(stopmode'.log)] = <<r, what>>

StopResumed == stopmode.pc = "resumed"

\* C37: stm32mp1_clock_stopmode_resume() writes RCC_MSSCKSELR, with the
\* saved source, only when PLL3 and PLL4 (each if it was running at the
\* save) have been read locked and have their saved outputs enabled; a PLL
\* is started only when it was running and its PLLON reads 0; the function
\* returns 0 exactly when no poll timed out, else -ETIMEDOUT; when a PLL
\* lock poll timed out neither RCC_MSSCKSELR nor RCC_MCUDIVR was written.
C37_mcu_source_after_plls ==
    /\ [][/\ StopWrote("RCC_MSSCKSELR", "write") =>
                /\ StopPllRestored("_PLL3", stopmode.pll3cr)
                /\ StopPllRestored("_PLL4", stopmode.pll4cr)
                /\ muxsel'["MCU"].src = stopmode.mssckselr
          /\ \A p \in StopPlls :
                StopWrote(p, "start") =>
                    /\ ~pll_is_running(pll[p])
                    /\ pll_was_running(IF p = "_PLL3" THEN stopmode.pll3cr
                                       ELSE stopmode.pll4cr)]_vars
    /\ [](StopResumed =>
            /\ stopmode.ret \in {"0", "-ETIMEDOUT"}
            /\ stopmode.ret = "0" <=> stopmode.failed = "none"
            /\ stopmode.failed \in StopPlls =>
                  /\ ~pll[stopmode.failed].pllrdy
                  /\ muxsel["MCU"].src = stopmode.pre.src
                  /\ divr["MCU"].div = stopmode.pre.div
                  /\ \A k \in 1..Len(stopmode.log) :
                        stopmode.log[k][1] \notin {"RCC_MSSCKSELR", "RCC_MCUDIVR"}
            /\ stopmode.failed = "RCC_MCUDIVR" => ~divr["MCU"].divrdy
            /\ stopmode.ret = "0" =>
                  /\ StopPllRestored("_PLL3", stopmode.pll3cr)
                  /\ StopPllRestored("_PLL4", stopmode.pll4cr)
                  /\ muxsel["MCU"].src = stopmode.mssckselr
                  /\ divr["MCU"] = [div |-> stopmode.mcudivr, divrdy |-> TRUE])

\* Both PLLs were running, stop mode stopped them and moved the MCU to the
\* HSI; the resume restarted both and returned 0 with the MCU back on PLL3.
C37_witness ==
    /\ StopResumed
    /\ stopmode.ret = "0"
    /\ stopmode.pll3cr.pllon /\ stopmode.pll4cr.pllon
    /\ stopmode.pre.src = "HSI"
    /\ muxsel["MCU"].src = "PLL3P"
    /\ stopmode.log = << <<"_PLL4", "start">>, <<"_PLL3", "start">>,
                         <<"_PLL3", "output">>, <<"_PLL4", "output">>,
                         <<"RCC_MSSCKSELR", "write">>, <<"RCC_MCUDIVR", "write">>,
                         <<"RCC_OCENCLRR", "write">> >>

\* ------------------------------------------------------------------------
\* The polling loops end
\* ------------------------------------------------------------------------

OpRunning == poll.pc \notin {"idle", "halted"}

\* C38: each of the six polling loops, once entered, ends: with 0 only
\* after a read that found the awaited bit at the polled value, with
\* -ETIMEDOUT only after a read that did not and a timer read past the
\* deadline; and stm32mp1_clk_init(), stm32mp1_set_opp_khz() and
\* stm32mp1_clock_stopmode_resume() each end (by a return, or by the
\* panic() of stm32mp1_set_opp_khz()) whatever the hardware bit does.
C38_polling_loops_end ==
    /\ (poll.pc = "read" /\ poll.reads = 0) ~> (poll.pc = "loop_done")
    /\ [](poll.pc = "loop_done" =>
            \/ /\ poll.ret = "0"
               /\ poll.seen = PollLoops[poll.site.fn].expect
            \/ /\ poll.ret = "-ETIMEDOUT"
               /\ poll.seen # PollLoops[poll.site.fn].expect
               /\ poll.now > poll.expire)
    /\ \A op \in PollOps :
          (poll.op = op /\ poll.pc = "call" /\ poll.opret = "none")
              ~> (poll.op = op /\ ~OpRunning /\ poll.opret # "none")

\* stm32mp1_clk_init() polled a PLL lock bit that never read 1 and got
\* -ETIMEDOUT.
C38_witness ==
    /\ poll.op = "stm32mp1_clk_init"
    /\ poll.pc = "loop_done"
    /\ poll.site.fn = "stm32mp1_pll_output"
    /\ poll.ret = "-ETIMEDOUT"
    /\ ~poll.reached

\* ------------------------------------------------------------------------
\* The result of the parent resolver
\* ------------------------------------------------------------------------

\* C39: a non-negative result of stm32mp1_clk_get_parent() is a parent id
\* (below _PARENT_NB), for every clock id with a gate, RTC included, and
\* every value of the source field of its selector.
C39_result_is_parent_id ==
    (parent.called /\ ~parent.out.panic /\ parent.out.ret # "-EINVAL")
        => IsParentId(parent.out.ret)

\* ------------------------------------------------------------------------
\* stm32_pwr_domain_on() and the refcount of RTCAPB
\* ------------------------------------------------------------------------

PwrReturned == pwr.pc = "returned"

PwrErrors ==
    {"PSCI_E_INTERN_FAIL", "PSCI_E_INVALID_PARAMS", "PSCI_E_INVALID_ADDRESS"}

\* The accesses of the log that are clk_enable or clk_disable.
PwrClkCalls == SelectSeq(pwr.log, LAMBDA w : w \in {"clk_enable", "clk_disable"})

\* C40: when stm32_pwr_domain_on() returns, the refcount of RTCAPB is what
\* it was at entry: an error return (single core, the calling CPU as
\* target, invalid entry point) made no clk_enable(RTCAPB); the success
\* return made one clk_enable(RTCAPB), then wrote the two backup registers,
\* then made one clk_disable(RTCAPB).
C40_pwr_domain_on_refcount_frame ==
    PwrReturned =>
        /\ TidCount = pwr.pre
        /\ pwr.ret \in PwrErrors \cup {"PSCI_E_SUCCESS"}
        /\ pwr.ret \in PwrErrors => PwrClkCalls = <<>>
        /\ pwr.ret = "PSCI_E_INTERN_FAIL" <=> pwr.single_core
        /\ pwr.ret = "PSCI_E_SUCCESS" =>
              /\ pwr.log = <<"bkpr_core1_magic", "clk_enable", "bkpr_core1_addr",
                            "bkpr_core1_magic", "clk_disable">>
              /\ pwr.bkpr_core1_addr = "sp_min_warm_entrypoint"
              /\ pwr.bkpr_core1_magic = "BOOT_API_A7_CORE1_MAGIC_NUMBER"

\* The handler returned PSCI_E_SUCCESS with RTCAPB held once by another
\* caller.
C40_witness ==
    /\ PwrReturned
    /\ pwr.ret = "PSCI_E_SUCCESS"
    /\ pwr.pre = 1
    /\ TidCount = 1

====
